---- MODULE Spec2Model ----
(***************************************************************************)
(* Farmchain soil-report advisory pipeline                                 *)
(*   agricultural_config.py : threshold tables, crop/season rules          *)
(*   soil_ai_module.py      : extractor, categorizer, recommender,         *)
(*                            explainer, process_soil_report               *)
(*   soil_ai_api.py         : stdin/stdout wrapper                         *)
(*                                                                         *)
(* Numbers.  Soil readings are Python floats.  Every reading of the model  *)
(* is an integer number of thousandths (pH 6.9 is 6900, Nitrogen 199.5     *)
(* kg/ha is 199500, Organic Carbon 0.395 % is 395), so that values lying   *)
(* between two table rows exist.  Confidences are in hundredths.           *)
(* Text.  A sentence is a sequence of words; a report text is a record of  *)
(* the lines it holds, each line a record of the tokens the extractor's    *)
(* regular expressions look at.                                            *)
(***************************************************************************)
EXTENDS Integers, Sequences, FiniteSets, TLC

VARIABLES
    \* ---- threshold table calls (categorize_*) ----
    cat_call,        \* [pc, param, value]: one call of the categorize functions
    cat_result,      \* what the two implementations returned for it
    \* ---- classify_soil_profile ----
    cls,             \* one call of classify_soil_profile: inputs, position, result
    \* ---- ai_fallback_extract, extract_soil_parameters ----
    ext,             \* one call of an AI-backed extraction function
    \* ---- generate_advisory ----
    adv,             \* one call of the advisory step: inputs, AI text, result
    \* ---- generate_agronomy_recommendations ----
    rec,             \* one call of the Recommender: inputs, attempt, result
    \* ---- generate_farmer_explanation ----
    expl,            \* one call of the Explainer: inputs and result
    \* ---- process_soil_report and the stdin/stdout wrapper ----
    req,             \* the request read from stdin
    pc,              \* position of the Orchestrator
    extracted_params,\* hard_parse_soil_values output, completed with missing keys
    soil_profile,    \* the profile process_soil_report builds
    summary,         \* the basic summary process_soil_report assembles itself
    result,          \* the value process_soil_report returns
    stdout           \* what the wrapper prints

vars == <<cat_call, cat_result, cls, ext, adv, rec, expl, req, pc, extracted_params,
          soil_profile, summary, result, stdout>>

\* Python's None for a reading ("value": None); readings are never negative.
None == 0 - 1

\* Python's None / an absent key for a string-valued field.
NoStr == "<none>"

(***************************************************************************)
(* agricultural_config.py: threshold tables.  Rows in dict order; min_val  *)
(* and max_val in thousandths.                                             *)
(***************************************************************************)
SOIL_THRESHOLDS ==
    [ Nitrogen   |-> << [category |-> "Low",    min_val |-> 0,      max_val |-> 199000],
                        [category |-> "Medium", min_val |-> 200000, max_val |-> 280000],
                        [category |-> "High",   min_val |-> 281000, max_val |-> 10000000] >>,
      Phosphorus |-> << [category |-> "Low",    min_val |-> 0,      max_val |-> 9000],
                        [category |-> "Medium", min_val |-> 10000,  max_val |-> 25000],
                        [category |-> "High",   min_val |-> 26000,  max_val |-> 10000000] >>,
      Potassium  |-> << [category |-> "Low",    min_val |-> 0,      max_val |-> 109000],
                        [category |-> "Medium", min_val |-> 110000, max_val |-> 280000],
                        [category |-> "High",   min_val |-> 281000, max_val |-> 10000000] >>,
      OrgC       |-> << [category |-> "Poor",   min_val |-> 0,      max_val |-> 390],
                        [category |-> "Medium", min_val |-> 400,    max_val |-> 750],
                        [category |-> "Rich",   min_val |-> 760,    max_val |-> 100000] >> ]

\* The key of SOIL_THRESHOLDS a parameter name selects by exact match
\* ("Organic Carbon" is the table's key; TLA+ record fields have no spaces).
ThresholdKey(name) ==
    CASE name = "Nitrogen"       -> "Nitrogen"
      [] name = "Phosphorus"     -> "Phosphorus"
      [] name = "Potassium"      -> "Potassium"
      [] name = "Organic Carbon" -> "OrgC"
      [] OTHER                   -> NoStr

\* categorize_ph with the lower Neutral boundary given to Acidic.
categorize_ph_lowbug(value) ==
    IF value = None \/ value < 0 \/ value > 14000
    THEN [ok |-> FALSE, category |-> "ValueError"]
    ELSE IF value <= 6500 THEN [ok |-> TRUE, category |-> "Acidic"]
    ELSE IF value <= 7500 THEN [ok |-> TRUE, category |-> "Neutral"]
    ELSE [ok |-> TRUE, category |-> "Alkaline"]

\* categorize_ph: raises ValueError outside 0..14, else the three bands.
\* The result is [ok, category]; ok = FALSE stands for the raised ValueError.
categorize_ph(value) ==
    IF value = None \/ value < 0 \/ value > 14000
    THEN [ok |-> FALSE, category |-> "ValueError"]
    ELSE IF value < 6500 THEN [ok |-> TRUE, category |-> "Acidic"]
    ELSE IF value <= 7500 THEN [ok |-> TRUE, category |-> "Neutral"]
    ELSE [ok |-> TRUE, category |-> "Alkaline"]

\* First row of a table whose closed range holds the value; 0 if none.
RECURSIVE FirstRow(_, _, _)
FirstRow(rows, value, i) ==
    IF i > Len(rows) THEN 0
    ELSE IF rows[i].min_val <= value /\ value <= rows[i].max_val THEN i
    ELSE FirstRow(rows, value, i + 1)

\* categorize_parameter (agricultural_config): pH by categorize_ph, the other
\* parameters by the first matching row; ValueError for a value in no row and
\* for a name that is no key of SOIL_THRESHOLDS.
categorize_parameter(param_name, value) ==
    IF param_name = "pH" THEN categorize_ph(value)
    ELSE IF ThresholdKey(param_name) # NoStr
    THEN LET rows == SOIL_THRESHOLDS[ThresholdKey(param_name)]
             i    == FirstRow(rows, value, 1)
         IN IF i = 0 THEN [ok |-> FALSE, category |-> "ValueError"]
            ELSE [ok |-> TRUE, category |-> rows[i].category]
    ELSE [ok |-> FALSE, category |-> "ValueError"]

\* key_map of categorize_from_thresholds, applied to str(param).strip().lower();
\* a name the map does not hold is looked up as it is.
key_map(param) ==
    CASE param \in {"pH", "ph", "PH"} -> "pH"
      [] param \in {"Nitrogen", "nitrogen"} -> "Nitrogen"
      [] param \in {"Phosphorus", "phosphorus"} -> "Phosphorus"
      [] param \in {"Potassium", "potassium"} -> "Potassium"
      [] param \in {"Organic Carbon", "organic carbon", "OrganicCarbon",
                    "organiccarbon", "Organic_Carbon", "organic_carbon"} -> "Organic Carbon"
      [] OTHER -> param

\* round(0.85 + 0.1 * proximity, 2) in hundredths, proximity =
\* 1 - |value - midpoint| / span clipped to [0, 1]; 0.9 for an empty span.
RowConfidence(row, value) ==
    LET span == row.max_val - row.min_val
        dev2 == IF 2 * value >= row.min_val + row.max_val
                THEN 2 * value - (row.min_val + row.max_val)
                ELSE (row.min_val + row.max_val) - 2 * value
        \* 10 * proximity = num / den
        num  == 10 * (2 * span - dev2)
        den  == 2 * span
    IN IF span > 0 THEN 85 + ((2 * num + den) \div (2 * den)) ELSE 90

\* categorize_from_thresholds (soil_ai_module): never raises; "Unknown", 0.0
\* for None, for a failed pH lookup, for an unknown parameter and for a value
\* in no row of the table.
categorize_from_thresholds(param, value) ==
    IF value = None THEN [category |-> "Unknown", confidence |-> 0]
    ELSE LET lookup_key == key_map(param)
         IN IF lookup_key = "pH"
            THEN IF categorize_ph(value).ok
                 THEN [category |-> categorize_ph(value).category, confidence |-> 95]
                 ELSE [category |-> "Unknown", confidence |-> 0]
            ELSE IF ThresholdKey(lookup_key) = NoStr
            THEN [category |-> "Unknown", confidence |-> 0]
            ELSE LET rows == SOIL_THRESHOLDS[ThresholdKey(lookup_key)]
                     i    == FirstRow(rows, value, 1)
                 IN IF i = 0 THEN [category |-> "Unknown", confidence |-> 0]
                    ELSE [category |-> rows[i].category,
                          confidence |-> RowConfidence(rows[i], value)]

(***************************************************************************)
(* Strings.  str.lower() on the words the program lowers: crop names,      *)
(* categories, seasons, irrigation types, languages, and the capitalised   *)
(* words of an explanation text.  A word already in lower case is          *)
(* unchanged.                                                              *)
(***************************************************************************)
Lower(s) ==
    CASE s = "Soybean" -> "soybean"     [] s = "Tur" -> "tur"
      [] s = "Cotton" -> "cotton"       [] s = "Maize" -> "maize"
      [] s = "Rice" -> "rice"           [] s = "Bajra" -> "bajra"
      [] s = "Jowar" -> "jowar"         [] s = "Groundnut" -> "groundnut"
      [] s = "Sugarcane" -> "sugarcane" [] s = "Wheat" -> "wheat"
      [] s = "Gram" -> "gram"           [] s = "Onion" -> "onion"
      [] s = "Tomato" -> "tomato"       [] s = "Potato" -> "potato"
      [] s = "Mustard" -> "mustard"     [] s = "Sunflower" -> "sunflower"
      [] s = "Garlic" -> "garlic"       [] s = "Fenugreek" -> "fenugreek"
      [] s = "Coriander" -> "coriander" [] s = "Watermelon" -> "watermelon"
      [] s = "Muskmelon" -> "muskmelon" [] s = "Cucumber" -> "cucumber"
      [] s = "Bitter Gourd" -> "bitter gourd" [] s = "Okra" -> "okra"
      [] s = "Banana" -> "banana"
      [] s = "Acidic" -> "acidic"       [] s = "Neutral" -> "neutral"
      [] s = "Alkaline" -> "alkaline"   [] s = "Low" -> "low"
      [] s = "Medium" -> "medium"       [] s = "High" -> "high"
      [] s = "Poor" -> "poor"           [] s = "Moderate" -> "moderate"
      [] s = "Rich" -> "rich"           [] s = "Unknown" -> "unknown"
      [] s = "Kharif" -> "kharif"       [] s = "Rabi" -> "rabi"
      [] s = "Summer" -> "summer"       [] s = "Monsoon" -> "monsoon"
      [] s = "Rain-fed" -> "rain-fed"   [] s = "Irrigated" -> "irrigated"
      [] s = "English" -> "english"     [] s = "Marathi" -> "marathi"
      [] s = "Hindi" -> "hindi"
      [] s = "Nitrogen" -> "nitrogen"   [] s = "Phosphorus" -> "phosphorus"
      [] s = "Potassium" -> "potassium" [] s = "Soil" -> "soil"
      [] s = "pH" -> "ph"
      [] s = "Nutrient" -> "nutrient"   [] s = "This" -> "this"
      [] s = "Pune" -> "pune"
      [] s = "Grow" -> "grow"           [] s = "Apply" -> "apply"
      [] s = "Use" -> "use"
      [] OTHER -> s

(***************************************************************************)
(* agricultural_config.py: crop/season and fertility rules.                *)
(***************************************************************************)
KHARIF_CROPS == <<"Soybean", "Tur", "Cotton", "Maize", "Rice",
                  "Bajra", "Jowar", "Groundnut", "Sugarcane">>

RABI_CROPS == <<"Wheat", "Gram", "Onion", "Tomato", "Potato",
                "Mustard", "Sunflower", "Garlic", "Fenugreek", "Coriander">>

SUMMER_CROPS == <<"Watermelon", "Muskmelon", "Cucumber", "Bitter Gourd", "Okra">>

SEASONS == {"Kharif", "Rabi", "Summer"}

HIGH_INPUT_CROPS == <<"Onion", "Sugarcane", "Banana", "Cotton">>

\* get_crop_list_for_season; called for a season of SEASONS only (the
\* ValueError for another season is is_crop_in_season's False).
get_crop_list_for_season(season) ==
    CASE season = "Kharif" -> KHARIF_CROPS
      [] season = "Rabi"   -> RABI_CROPS
      [] season = "Summer" -> SUMMER_CROPS
      [] OTHER             -> <<>>

\* is_crop_in_season: case-insensitive membership; False for an unknown season.
is_crop_in_season(crop, season) ==
    /\ season \in SEASONS
    /\ \E i \in 1..Len(get_crop_list_for_season(season)) :
          Lower(crop) = Lower(get_crop_list_for_season(season)[i])

\* validate_crops_for_season with any() in place of all().
validate_crops_for_season_any(crops, season) ==
    /\ crops # <<>> /\ season # ""
    /\ \E i \in 1..Len(crops) : is_crop_in_season(crops[i], season)

\* validate_crops_for_season: False for no crops or no season, else all().
validate_crops_for_season(crops, season) ==
    /\ crops # <<>> /\ season # ""
    /\ \A i \in 1..Len(crops) : is_crop_in_season(crops[i], season)

\* should_filter_crop: exact (case-sensitive) membership in HIGH_INPUT_CROPS,
\* and Nitrogen "Low" or Organic Carbon "Poor".
should_filter_crop(crop, nitrogen_category, organic_carbon_category) ==
    /\ \E i \in 1..Len(HIGH_INPUT_CROPS) : crop = HIGH_INPUT_CROPS[i]
    /\ (nitrogen_category = "Low" \/ organic_carbon_category = "Poor")

\* get_disclaimer without the default of DISCLAIMERS.get: None for a language
\* the dict does not hold.
get_disclaimer_nodefault(language) ==
    IF Lower(language) \in {"marathi", "mr"} THEN "DISCLAIMER_MR"
    ELSE IF Lower(language) \in {"english", "en"} THEN "DISCLAIMER_EN"
    ELSE NoStr

\* DISCLAIMERS[language.lower()] with DISCLAIMER_EN as the default; the two
\* texts are named, not spelled.  Called with None, language.lower() raises.
get_disclaimer(language) ==
    IF Lower(language) \in {"marathi", "mr"} THEN "DISCLAIMER_MR" ELSE "DISCLAIMER_EN"

(***************************************************************************)
(* Idle values of the state a specification does not use.                  *)
(***************************************************************************)
Idle == [pc |-> "idle"]

IdleCategorize == cat_call = Idle /\ cat_result = Idle
IdleClassify   == cls = Idle
IdleExtract    == ext = Idle
IdleAdvisory   == adv = Idle
IdleRecommend  == rec = Idle
IdleExplain    == expl = Idle
IdlePipeline   ==
    /\ req = Idle /\ pc = "idle" /\ extracted_params = Idle /\ soil_profile = Idle
    /\ summary = <<>> /\ result = Idle /\ stdout = Idle

categorizeVars == <<cat_call, cat_result>>
pipelineVars   == <<req, pc, extracted_params, soil_profile, summary, result, stdout>>

(***************************************************************************)
(* classify_soil_profile (soil_ai_module.py 880-1168).                     *)
(* extracted_params arrives in the shape extract_soil_parameters returns,  *)
(* {"version", "extracted_parameters": {...}}; the readings are looked up  *)
(* under the names of param_mappings.                                      *)
(***************************************************************************)
\* param_mappings: param_key -> param_name, in dict order.
param_mappings ==
    << [param_key |-> "pH",             param_name |-> "pH"],
       [param_key |-> "Nitrogen",       param_name |-> "Nitrogen"],
       [param_key |-> "Phosphorus",     param_name |-> "Phosphorus"],
       [param_key |-> "Potassium",      param_name |-> "Potassium"],
       [param_key |-> "Organic Carbon", param_name |-> "Organic Carbon"],
       [param_key |-> "Organic_Carbon", param_name |-> "Organic Carbon"] >>

\* Keys a classified soil_profile can hold.
ProfileKeys == {"pH", "Nitrogen", "Phosphorus", "Potassium", "Organic Carbon", "Organic_Carbon"}

\* Names under which classify_soil_profile looks for readings.
ClassifyParams == {"pH", "Nitrogen", "Phosphorus", "Potassium", "Organic Carbon"}

\* An absent entry of a profile.
NoEntry == [category |-> NoStr, confidence |-> 0]

EmptyProfile == [k \in ProfileKeys |-> NoEntry]

Measured(reading) == reading.source = "report" /\ reading.value # None

\* Lines 1003-1049: the pre_categorized dict.  A measured pH outside 0..14
\* makes categorize_ph raise here, outside every try block.
PrecategorizeRaises(extracted) ==
    /\ extracted["pH"].value # None
    /\ ~ categorize_ph(extracted["pH"].value).ok

PrecategorizeEntry(param_key, reading) ==
    IF Measured(reading)
    THEN [category |-> IF param_key = "pH" THEN categorize_ph(reading.value).category
                       ELSE categorize_from_thresholds(param_key, reading.value).category,
          confidence |-> 95]
    ELSE IF reading.value # None
    THEN IF param_key = "pH"
         THEN [category |-> categorize_ph(reading.value).category, confidence |-> 95]
         ELSE categorize_from_thresholds(param_key, reading.value)
    ELSE NoEntry

NameOfKey(param_key) == IF param_key = "Organic_Carbon" THEN "Organic Carbon" ELSE param_key

Precategorize(extracted) ==
    [k \in ProfileKeys |-> PrecategorizeEntry(k, extracted[NameOfKey(k)])]

\* Lines 1095-1100: pH is overwritten only from pre_categorized_soil_profile.
\* (The check of lines 1102-1111 reads "pH" in extracted_params, the outer
\* dict, which holds "version" and "extracted_parameters" only.)
OverridePh(profile, pre_categorized_soil_profile) ==
    IF pre_categorized_soil_profile.given
    THEN [profile EXCEPT !["pH"] = [category |-> pre_categorized_soil_profile.category,
                                    confidence |-> pre_categorized_soil_profile.confidence]]
    ELSE profile

\* Lines 1113-1126: every pre_categorized entry but pH overwrites the AI's.
OverrideLocked(profile, pre_categorized) ==
    [k \in ProfileKeys |->
        IF k # "pH" /\ pre_categorized[k] # NoEntry THEN pre_categorized[k] ELSE profile[k]]

\* Lines 1140-1157: Nitrogen, Phosphorus, Potassium once more against the table.
EnforceNPK(profile, extracted) ==
    [k \in ProfileKeys |->
        IF /\ k \in {"Nitrogen", "Phosphorus", "Potassium"}
           /\ Measured(extracted[k])
           /\ profile[k].category # categorize_from_thresholds(k, extracted[k].value).category
        THEN [category |-> categorize_from_thresholds(k, extracted[k].value).category,
              confidence |-> 95]
        ELSE profile[k]]

\* The profile classify_soil_profile returns for an AI answer that parsed.
ClassifiedProfile(ai_profile, extracted, pre_categorized_soil_profile) ==
    EnforceNPK(OverrideLocked(OverridePh(ai_profile, pre_categorized_soil_profile),
                              Precategorize(extracted)),
               extracted)

\* Readings handed to classify_soil_profile.
MissingReading == [value |-> None, source |-> "missing"]
Report(v) == [value |-> v, source |-> "report"]

ClassifyReadings ==
    [ pH : {MissingReading, Report(6900), Report(15200)},
      Nitrogen : {MissingReading, Report(120000), Report(199500)},
      Phosphorus : {MissingReading, Report(15000)},
      Potassium : {MissingReading, Report(300000)},
      OrgC : {MissingReading, Report(300), Report(500)} ]

ReadingsOf(r) ==
    [k \in ClassifyParams |->
        CASE k = "pH" -> r.pH
          [] k = "Nitrogen" -> r.Nitrogen
          [] k = "Phosphorus" -> r.Phosphorus
          [] k = "Potassium" -> r.Potassium
          [] OTHER -> r.OrgC]

\* Answers of the AI classification service: a failure of the call or of the
\* JSON parse, an answer echoing a numeric soil value, an answer without the
\* soil_profile key, or a profile with any category (or none) per parameter.
AIClassifyProfiles ==
    [ pH : {NoStr, "Neutral", "Alkaline"},
      Nitrogen : {NoStr, "Low", "High"},
      Phosphorus : {NoStr, "Low"},
      Potassium : {NoStr, "Low", "Very High"},
      OrgC : {NoStr, "Poor", "Rich"} ]

AIProfileOf(a) ==
    [k \in ProfileKeys |->
        LET c == CASE k = "pH" -> a.pH
                   [] k = "Nitrogen" -> a.Nitrogen
                   [] k = "Phosphorus" -> a.Phosphorus
                   [] k = "Potassium" -> a.Potassium
                   [] k = "Organic Carbon" -> a.OrgC
                   [] OTHER -> NoStr
        IN IF c = NoStr THEN NoEntry ELSE [category |-> c, confidence |-> 60]]

AIClassifyFailures == {"exception", "numeric_value", "no_soil_profile_key"}

\* The pre_categorized_soil_profile argument: absent, or the backend's pH entry.
PreCategorizedPh(extracted) ==
    {[given |-> FALSE, category |-> NoStr, confidence |-> 0]}
    \cup (IF extracted["pH"].value # None /\ categorize_ph(extracted["pH"].value).ok
          THEN {[given |-> TRUE,
                 category |-> categorize_ph(extracted["pH"].value).category,
                 confidence |-> 95]}
          ELSE {})

InitClassify ==
    /\ \E r \in ClassifyReadings :
         \E pre \in PreCategorizedPh(ReadingsOf(r)) :
            cls = [pc |-> "start", extracted |-> ReadingsOf(r),
                   pre_categorized_soil_profile |-> pre,
                   ai |-> "none", ai_profile |-> EmptyProfile,
                   raised |-> FALSE, error |-> FALSE, soil_profile |-> EmptyProfile]
    /\ IdleCategorize /\ IdleExtract /\ IdleAdvisory /\ IdleRecommend /\ IdleExplain /\ IdlePipeline

\* Lines 894-1049: pre-categorization, which can raise.
ClassifyPrecategorize ==
    /\ cls.pc = "start"
    /\ cls' = IF PrecategorizeRaises(cls.extracted)
              THEN [cls EXCEPT !.pc = "returned", !.raised = TRUE]
              ELSE [cls EXCEPT !.pc = "ai_call"]
    /\ UNCHANGED <<categorizeVars, ext, adv, rec, expl, pipelineVars>>

\* Lines 1051-1168, the AI answer failing: {"soil_profile": {}, "error"}.
ClassifyAIFails ==
    /\ cls.pc = "ai_call"
    /\ \E f \in AIClassifyFailures :
         cls' = [cls EXCEPT !.pc = "returned", !.ai = f, !.error = TRUE,
                            !.soil_profile = EmptyProfile]
    /\ UNCHANGED <<categorizeVars, ext, adv, rec, expl, pipelineVars>>

\* Lines 1051-1159, the AI answer parsing: override, enforcement, return.
ClassifyAIAnswers ==
    /\ cls.pc = "ai_call"
    /\ \E a \in AIClassifyProfiles :
         cls' = [cls EXCEPT !.pc = "returned", !.ai = "ok",
                            !.ai_profile = AIProfileOf(a),
                            !.soil_profile =
                                ClassifiedProfile(AIProfileOf(a), cls.extracted,
                                                  cls.pre_categorized_soil_profile)]
    /\ UNCHANGED <<categorizeVars, ext, adv, rec, expl, pipelineVars>>

NextClassify == ClassifyPrecategorize \/ ClassifyAIFails \/ ClassifyAIAnswers

SpecClassify == InitClassify /\ [][NextClassify]_vars

\* C1 as stated: in the profile classify_soil_profile returns, every
\* parameter whose reading is measured (source "report", a numeric value) and
\* to which the AI answer gave a category has the threshold-table category
\* of its value, whatever that AI category was and whether or not a
\* pre-categorized pH was passed in.
C1_MeasuredCategoryLocked ==
    (cls.pc = "returned" /\ cls.ai = "ok")
        => \A k \in ClassifyParams :
              (Measured(cls.extracted[k]) /\ cls.ai_profile[k] # NoEntry)
                  => cls.soil_profile[k].category
                       = categorize_from_thresholds(k, cls.extracted[k].value).category

(***************************************************************************)
(* SpecCategorize: calls of the three categorize functions on sampled      *)
(* parameter names and values.                                             *)
(***************************************************************************)
\* Parameter names a caller passes: the five parameters, the extractor's
\* "OrganicCarbon" key, and a name no table holds.
CategorizeParams ==
    {"pH", "Nitrogen", "Phosphorus", "Potassium", "Organic Carbon", "OrganicCarbon", "EC"}

\* Sampled readings (thousandths): the calibration points of
\* test_threshold_categorization, points between adjacent rows, and points
\* beyond the tables.
CategorizeValues ==
    { None, 0, 300, 390, 395, 400, 750, 755, 760,
      6400, 6450, 6500, 6900, 7000, 7500, 7505, 7600, 8000,
      9000, 9500, 10000, 14000, 15200, 25000, 25500, 26000,
      109000, 109500, 110000, 120000, 199000, 199500, 200000, 250000,
      280000, 280500, 281000, 300000, 10000000, 20000000 }

InitCategorize ==
    /\ cat_call \in [pc : {"call"}, param : CategorizeParams, value : CategorizeValues]
    /\ cat_result = Idle
    /\ IdleClassify /\ IdleExtract /\ IdleAdvisory /\ IdleRecommend /\ IdleExplain /\ IdlePipeline

\* categorize_from_thresholds(param, value)
CallCategorizeFromThresholds ==
    /\ cat_call.pc = "call"
    /\ LET r == categorize_from_thresholds(cat_call.param, cat_call.value)
       IN cat_result' = [pc |-> "returned", fn |-> "categorize_from_thresholds",
                         ok |-> TRUE, category |-> r.category, confidence |-> r.confidence]
    /\ cat_call' = [cat_call EXCEPT !.pc = "returned"]
    /\ UNCHANGED <<cls, ext, adv, rec, expl, pipelineVars>>

\* categorize_parameter(param_name, value); a None value is no number and the
\* comparison raises (TypeError), which the model folds into ok = FALSE.
CallCategorizeParameter ==
    /\ cat_call.pc = "call"
    /\ LET r == IF cat_call.value = None
                THEN [ok |-> FALSE, category |-> "ValueError"]
                ELSE categorize_parameter(cat_call.param, cat_call.value)
       IN cat_result' = [pc |-> "returned", fn |-> "categorize_parameter",
                         ok |-> r.ok, category |-> r.category, confidence |-> 0]
    /\ cat_call' = [cat_call EXCEPT !.pc = "returned"]
    /\ UNCHANGED <<cls, ext, adv, rec, expl, pipelineVars>>

\* categorize_ph(value)
CallCategorizePh ==
    /\ cat_call.pc = "call"
    /\ cat_call.param = "pH"
    /\ LET r == categorize_ph(cat_call.value)
       IN cat_result' = [pc |-> "returned", fn |-> "categorize_ph",
                         ok |-> r.ok, category |-> r.category, confidence |-> 0]
    /\ cat_call' = [cat_call EXCEPT !.pc = "returned"]
    /\ UNCHANGED <<cls, ext, adv, rec, expl, pipelineVars>>

NextCategorize ==
    \/ CallCategorizeFromThresholds
    \/ CallCategorizeParameter
    \/ CallCategorizePh

SpecCategorize == InitCategorize /\ [][NextCategorize]_vars

CategorizeReturned == cat_call.pc = "returned"

\* The calibration table of test_threshold_categorization and P2.
BoundaryExpected(param, value) ==
    CASE param = "pH" /\ value = 6400 -> "Acidic"
      [] param = "pH" /\ value \in {6500, 6900, 7000, 7500} -> "Neutral"
      [] param = "pH" /\ value \in {7600, 8000} -> "Alkaline"
      [] param = "Nitrogen" /\ value \in {120000, 199000} -> "Low"
      [] param = "Nitrogen" /\ value \in {200000, 250000, 280000} -> "Medium"
      [] param = "Nitrogen" /\ value \in {281000, 300000} -> "High"
      [] OTHER -> NoStr

\* C6: at every calibration point (pH 6.4, 6.5, 6.9, 7.0, 7.5, 7.6, 8.0 and
\* Nitrogen 120, 199, 200, 250, 280, 281, 300) each of categorize_ph,
\* categorize_parameter and categorize_from_thresholds returns, without
\* raising, the category the calibration table gives.
C6_BoundaryCategories ==
    (CategorizeReturned /\ BoundaryExpected(cat_call.param, cat_call.value) # NoStr)
        => (cat_result.ok
            /\ cat_result.category = BoundaryExpected(cat_call.param, cat_call.value))

\* C6 witness: the module's implementation has answered for pH 7.5 (the
\* upper Neutral boundary).
C6_Witness ==
    /\ CategorizeReturned
    /\ cat_result.fn = "categorize_from_thresholds"
    /\ cat_call.param = "pH" /\ cat_call.value = 7500
    /\ cat_result.category = "Neutral"

\* The category the spec's threshold statement gives a value of a nutrient
\* (N < 200 Low, 200..280 Medium, > 280 High; P < 10, 10..25, > 25;
\* K < 110, 110..280, > 280; OC < 0.4 Poor, 0.4..0.75 Medium, > 0.75 Rich).
StatedCategory(param, value) ==
    CASE param = "Nitrogen" ->
            IF value < 200000 THEN "Low" ELSE IF value <= 280000 THEN "Medium" ELSE "High"
      [] param = "Phosphorus" ->
            IF value < 10000 THEN "Low" ELSE IF value <= 25000 THEN "Medium" ELSE "High"
      [] param = "Potassium" ->
            IF value < 110000 THEN "Low" ELSE IF value <= 280000 THEN "Medium" ELSE "High"
      [] param = "Organic Carbon" ->
            IF value < 400 THEN "Poor" ELSE IF value <= 750 THEN "Medium" ELSE "Rich"
      [] OTHER -> NoStr

\* The numeric domain of a parameter: 0..10000 kg/ha for N, P, K and
\* 0..100 % for Organic Carbon (the extent of the tables).
InDomain(param, value) ==
    /\ value # None /\ value >= 0
    /\ IF param = "Organic Carbon" THEN value <= 100000 ELSE value <= 10000000

\* C7 as stated: for every value of a nutrient's domain, integer or not,
\* the threshold table (categorize_from_thresholds and categorize_parameter)
\* returns the stated category; no value between two rows is left without one.
C7_TableCoversDomain ==
    (/\ CategorizeReturned
     /\ cat_result.fn \in {"categorize_from_thresholds", "categorize_parameter"}
     /\ StatedCategory(cat_call.param, cat_call.value) # NoStr
     /\ InDomain(cat_call.param, cat_call.value))
        => (cat_result.ok
            /\ cat_result.category = StatedCategory(cat_call.param, cat_call.value))

(***************************************************************************)
(* generate_agronomy_recommendations (soil_ai_module.py 1174-1544).        *)
(* A soil profile reaches the Recommender and the Explainer as the map     *)
(* key -> category of its entries (NoStr for a key the profile lacks);     *)
(* neither reads another field of an entry.                                *)
(* Crop durations (get_crop_durations, imported from agricultural_config   *)
(* but not defined there), the equipment plan and the fertilizer plan do   *)
(* not influence the primary crop list and are not represented.            *)
(***************************************************************************)
\* Longest primary crop list the AI recommendation service answers with.
MaxCrops == 2

max_retries == 2

\* Keys a profile can hold: those of classify_soil_profile and the
\* "OrganicCarbon" key process_soil_report writes.
AllProfileKeys == ProfileKeys \cup {"OrganicCarbon"}

NoCategories == [k \in AllProfileKeys |-> NoStr]

\* soil_profile.get(key, {}).get("category", "Unknown")
CategoryOf(categories, key) ==
    IF categories[key] = NoStr THEN "Unknown" ELSE categories[key]

\* (soil_profile.get("Organic Carbon", {}) or soil_profile.get("Organic_Carbon", {}))
\*     .get("category", "Unknown")
organic_carbon_category(categories) ==
    IF categories["Organic Carbon"] # NoStr THEN categories["Organic Carbon"]
    ELSE CategoryOf(categories, "Organic_Carbon")

\* MARATHI_CROP_MAP.get(crop_name, crop_name).  The Devanagari keys are
\* written in Latin transliteration: "pyaj" (Onion), "gahu" (Wheat),
\* "soyabin" (Soybean), "ganna" (Sugarcane).
translate_crop_name_to_english(crop_name) ==
    CASE crop_name = "pyaj"    -> "Onion"
      [] crop_name = "gahu"    -> "Wheat"
      [] crop_name = "soyabin" -> "Soybean"
      [] crop_name = "ganna"   -> "Sugarcane"
      [] OTHER                 -> crop_name

translate_crop_names_to_english(crops) ==
    [i \in 1..Len(crops) |-> translate_crop_name_to_english(crops[i])]

\* Line 1395: the crops of crops_for_validation that should_filter_crop rejects.
high_input_in_result(crops_for_validation, nitrogen_category, oc_category) ==
    {i \in 1..Len(crops_for_validation) :
        should_filter_crop(crops_for_validation[i], nitrogen_category, oc_category)}

\* lang_lower in ("marathi", <the word in Devanagari>)
is_marathi(language) == Lower(language) = "marathi"

\* Answers of the AI recommendation service on one attempt: the call or the
\* JSON parse fails, the answer carries a numeric soil value, the answer has
\* no crop_recommendation.primary, or it has a primary crop list.
AICrops == {"Onion", "onion", "pyaj", "Wheat", "Soybean", "Sugarcane", "Tomato"}

RECURSIVE CropLists(_)
CropLists(n) ==
    IF n = 0 THEN {<<>>}
    ELSE CropLists(n - 1)
         \cup {Append(l, c) : l \in {x \in CropLists(n - 1) : Len(x) = n - 1}, c \in AICrops}

\* The fertilizer_plan of an AI answer or of a result: absent, a JSON object
\* whose Nitrogen entry has the recommended_range n_range (NoStr: the object
\* has no Nitrogen entry), or a value that is not an object (null, a string,
\* a list).
FertilizerPlan(kind, n_range) == [kind |-> kind, n_range |-> n_range]
NoPlan == FertilizerPlan("absent", NoStr)

AIFertilizerPlans ==
    {FertilizerPlan("object", r) : r \in {NoStr, "Low", "High"}}
    \cup {FertilizerPlan("not_an_object", NoStr)}

\* Lines 1520-1528: the Nitrogen range of the plan is aligned with a Low
\* Nitrogen category when the plan is a dict (an absent plan reads as {}).
AlignNitrogenRange(fert_plan, nitrogen_category) ==
    IF fert_plan.kind \in {"absent", "object"} /\ nitrogen_category = "Low"
    THEN FertilizerPlan("object",
                        IF fert_plan.n_range \in {"Low", "Low to Medium"}
                        THEN fert_plan.n_range ELSE "Low to Medium")
    ELSE fert_plan

AIRecommendAnswers ==
    {[kind |-> k, has_primary |-> FALSE, primary |-> <<>>, fertilizer_plan |-> NoPlan] :
        k \in {"exception", "numeric_value", "ok"}}
    \cup {[kind |-> "ok", has_primary |-> TRUE, primary |-> l, fertilizer_plan |-> NoPlan] :
            l \in CropLists(MaxCrops)}
    \cup {[kind |-> "ok", has_primary |-> h, primary |-> IF h THEN <<"Soybean">> ELSE <<>>,
            fertilizer_plan |-> p] : h \in BOOLEAN, p \in AIFertilizerPlans}

\* A call of generate_agronomy_recommendations.
RecommendCall(categories, district, season, irrigation_type, language) ==
    [pc |-> "call", categories |-> categories, district |-> district,
     season |-> season, irrigation_type |-> irrigation_type, language |-> language,
     attempt |-> 0, raised |-> FALSE, error |-> FALSE, error_message |-> NoStr,
     has_primary |-> FALSE, primary |-> <<>>, fertilizer_plan |-> NoPlan]

\* Lines 1193-1207: the error return for a missing input, the ValueError for
\* an empty profile, and language.lower() on None, which raise to the caller.
RecommendPrologue(r) ==
    IF r.district = "" \/ r.season = "" \/ r.irrigation_type = ""
    THEN [r EXCEPT !.pc = "returned", !.error = TRUE,
                   !.error_message = "District, season, and irrigation_type are required"]
    ELSE IF r.categories = NoCategories \/ r.language = NoStr
    THEN [r EXCEPT !.pc = "returned", !.raised = TRUE]
    ELSE [r EXCEPT !.pc = "attempt"]

\* Lines 1531-1539: an exception inside the loop body.
RecommendExcept(r) ==
    IF r.attempt = max_retries - 1
    THEN [r EXCEPT !.pc = "returned", !.error = TRUE, !.error_message = "str(e)"]
    ELSE [r EXCEPT !.attempt = r.attempt + 1]

\* Lines 1399-1407 with the crop list returned on exhaustion in place of the
\* error object.
SeasonValidationFailed_unvalidated(r, crops) ==
    IF r.attempt < max_retries - 1
    THEN [r EXCEPT !.attempt = r.attempt + 1]
    ELSE [r EXCEPT !.pc = "returned", !.has_primary = TRUE, !.primary = crops]

\* Lines 1399-1407: the season validation of the answer's crops failed; the
\* loop continues, or on the last attempt returns the error object, which
\* has the keys version and error only.
SeasonValidationFailed(r, crops) ==
    IF r.attempt < max_retries - 1
    THEN [r EXCEPT !.attempt = r.attempt + 1]
    ELSE [r EXCEPT !.pc = "returned", !.error = TRUE,
                   !.error_message = "Crop recommendations do not match season"]

\* Lines 1336-1530: one iteration of the retry loop on the AI answer a.
RecommendIteration(r, a) ==
    LET crops_for_validation == translate_crop_names_to_english(a.primary)
        nitrogen_category    == CategoryOf(r.categories, "Nitrogen")
        oc_category          == organic_carbon_category(r.categories)
    IN IF a.kind # "ok" THEN RecommendExcept(r)
       ELSE IF ~ a.has_primary
       THEN [r EXCEPT !.pc = "returned",
                      !.fertilizer_plan = AlignNitrogenRange(a.fertilizer_plan,
                                                             nitrogen_category)]
       ELSE IF high_input_in_result(crops_for_validation, nitrogen_category, oc_category) # {}
       THEN RecommendExcept(r)          \* FAIL-FAST ValueError, caught at 1531
       ELSE IF ~ validate_crops_for_season(crops_for_validation, r.season)
       THEN SeasonValidationFailed(r, a.primary)
       ELSE [r EXCEPT !.pc = "returned", !.has_primary = TRUE,
                      !.primary = IF is_marathi(r.language) THEN a.primary
                                  ELSE crops_for_validation,
                      !.fertilizer_plan = AlignNitrogenRange(a.fertilizer_plan,
                                                             nitrogen_category)]

\* Inputs of the calls SpecRecommend makes.
RecommendCategories ==
    {[NoCategories EXCEPT !["pH"] = "Neutral", !["Nitrogen"] = n, ![ock] = oc] :
        n \in {"Low", "Medium", "Unknown"},
        ock \in {"Organic Carbon", "Organic_Carbon", "OrganicCarbon"},
        oc \in {"Poor", "Rich"}}
    \cup {NoCategories}

InitRecommend ==
    /\ \E c \in RecommendCategories, season \in {"Kharif", "Rabi", "Monsoon", ""},
          language \in {"english", "Marathi"} :
          rec = RecommendCall(c, "Pune", season, "Rain-fed", language)
    /\ IdleCategorize /\ IdleClassify /\ IdleExtract /\ IdleAdvisory /\ IdleExplain /\ IdlePipeline

RecommendStart ==
    /\ rec.pc = "call"
    /\ rec' = RecommendPrologue(rec)
    /\ UNCHANGED <<categorizeVars, ext, adv, cls, expl, pipelineVars>>

RecommendAttempt ==
    /\ rec.pc = "attempt"
    /\ \E a \in AIRecommendAnswers : rec' = RecommendIteration(rec, a)
    /\ UNCHANGED <<categorizeVars, ext, adv, cls, expl, pipelineVars>>

NextRecommend == RecommendStart \/ RecommendAttempt

SpecRecommend == InitRecommend /\ [][NextRecommend]_vars

\* C4: every crop in the primary list of a recommendation that
\* generate_agronomy_recommendations returned without an error is, under the
\* name the season lists use (is_crop_in_season: translated to English,
\* letter case ignored), a crop of the requested season's list; for season
\* Kharif the list never holds Wheat.
C4_PrimaryCropsInSeason ==
    (rec.pc = "returned" /\ ~ rec.error /\ ~ rec.raised /\ rec.has_primary)
        => /\ \A i \in 1..Len(rec.primary) :
                 is_crop_in_season(translate_crop_name_to_english(rec.primary[i]), rec.season)
           /\ rec.season = "Kharif"
                 => \A i \in 1..Len(rec.primary) :
                       Lower(translate_crop_name_to_english(rec.primary[i])) # "wheat"

\* C4 witness: a Kharif recommendation came back on the second attempt with
\* two crops.
C4_Witness ==
    /\ rec.pc = "returned" /\ ~ rec.error /\ rec.has_primary
    /\ rec.season = "Kharif" /\ rec.attempt = 1
    /\ Len(rec.primary) = 2

(***************************************************************************)
(* generate_farmer_explanation (soil_ai_module.py 1548-1649).              *)
(* A text is the sequence of its words and punctuation marks.              *)
(***************************************************************************)
NotAvailable(what) ==
    <<what, "data", "is", "not", "available", ".",
      "Soil", "testing", "is", "recommended", ".">>

\* Lines 1588-1592
PhStatement(pH_category) ==
    IF pH_category # "Unknown"
    THEN <<"Soil", "pH", "is", Lower(pH_category), ".">>
    ELSE <<"Soil">> \o NotAvailable("pH")

\* The nitrogen statement with the sentences of Low and High exchanged.
NitrogenStatement_swapped(nitrogen_category) ==
    IF nitrogen_category = "Unknown" THEN NotAvailable("Nitrogen")
    ELSE IF nitrogen_category = "Low"
    THEN <<"Nitrogen", "levels", "are", "high", ".",
           "Nitrogen", "levels", "are", "sufficient", "for", "crop", "growth", ".">>
    ELSE <<"Nitrogen", "levels", "are", Lower(nitrogen_category), ".">>

\* Lines 1594-1602
NitrogenStatement(nitrogen_category) ==
    IF nitrogen_category # "Unknown"
    THEN <<"Nitrogen", "levels", "are", Lower(nitrogen_category), ".">>
         \o (IF nitrogen_category = "Low"
             THEN <<"Nutrient", "supplementation", "is", "required", "to",
                    "improve", "soil", "fertility", ".">>
             ELSE IF nitrogen_category = "High"
             THEN <<"Nitrogen", "levels", "are", "sufficient", "for", "crop", "growth", ".">>
             ELSE <<>>)
    ELSE NotAvailable("Nitrogen")

\* Lines 1604-1616: Phosphorus and Potassium have a sentence for Low and for
\* High only.
NutrientStatement(nutrient, category) ==
    IF category = "Low"
    THEN <<nutrient, "levels", "are", "low", "and", "may", "require", "supplementation", ".">>
    ELSE IF category = "High"
    THEN <<nutrient, "levels", "are", "adequate", ".">>
    ELSE <<>>

\* Lines 1618-1625
OrganicCarbonStatement(organic_carbon_cat) ==
    IF organic_carbon_cat = "Poor"
    THEN <<"Soil", "organic", "carbon", "is", "poor", ",", "indicating", "low",
           "fertility", ".", "Soil", "improvement", "is", "advised", ".">>
    ELSE IF organic_carbon_cat = "Moderate"
    THEN <<"Soil", "organic", "carbon", "is", "moderate", ".">>
    ELSE IF organic_carbon_cat = "Rich"
    THEN <<"Soil", "organic", "carbon", "is", "rich", ",", "indicating", "good",
           "fertility", ".">>
    ELSE <<>>

\* Line 1628
ContextStatement(district, season, irrigation_type) ==
    <<"This", "recommendation", "is", "for", Lower(season), "season", "with",
      Lower(irrigation_type), "irrigation", "in", district, "district", ".">>

\* word in text.lower(): some word of the text, lowered, is the word.
InLower(word, text) == \E i \in 1..Len(text) : Lower(text[i]) = word

\* The explanation text of lines 1585-1631.
ExplanationText(categories, district, season, irrigation_type) ==
    PhStatement(CategoryOf(categories, "pH"))
    \o NitrogenStatement(CategoryOf(categories, "Nitrogen"))
    \o NutrientStatement("Phosphorus", CategoryOf(categories, "Phosphorus"))
    \o NutrientStatement("Potassium", CategoryOf(categories, "Potassium"))
    \o OrganicCarbonStatement(organic_carbon_category(categories))
    \o ContextStatement(district, season, irrigation_type)

\* What a recommendation lends to a text that reads it: its primary crops.
AgronomyWords(agronomy_data) ==
    IF agronomy_data.has_primary THEN agronomy_data.primary ELSE <<>>

\* generate_farmer_explanation with the recommended crops named in the summary.
generate_farmer_explanation_fromAgronomy(agronomy_data, categories, district, season, irrigation_type, language) ==
    IF categories = NoCategories \/ language = NoStr
    THEN [raised |-> TRUE, summary |-> <<>>, disclaimer |-> NoStr]
    ELSE [raised |-> FALSE,
          summary |-> ExplanationText(categories, district, season, irrigation_type)
                      \o AgronomyWords(agronomy_data),
          disclaimer |-> get_disclaimer(language)]

\* generate_farmer_explanation: ValueError for an empty profile, RuntimeError
\* from the safety check of line 1636, AttributeError from get_disclaimer(None);
\* else {"language", "summary", "disclaimer"}.  agronomy_data is not read.
generate_farmer_explanation(agronomy_data, categories, district, season, irrigation_type, language) ==
    LET explanation == ExplanationText(categories, district, season, irrigation_type)
    IN IF \/ categories = NoCategories
          \/ /\ CategoryOf(categories, "Nitrogen") = "Low"
             /\ InLower("medium", explanation) /\ InLower("nitrogen", explanation)
          \/ language = NoStr
       THEN [raised |-> TRUE, summary |-> <<>>, disclaimer |-> NoStr]
       ELSE [raised |-> FALSE, summary |-> explanation,
             disclaimer |-> get_disclaimer(language)]

\* A recommendation as the Explainer receives it.
Recommendation(has_primary, primary) == [has_primary |-> has_primary, primary |-> primary]

\* Inputs of the calls SpecExplain makes.
ExplainCategories ==
    {[NoCategories EXCEPT !["pH"] = ph, !["Nitrogen"] = n, !["Phosphorus"] = p,
                          !["Potassium"] = k, ![ock] = oc] :
        ph \in {"Neutral", "Unknown"},
        n \in {"Low", "Medium", "High", "Unknown"},
        p \in {"Low", "Medium", "High"},
        k \in {"Low", NoStr},
        ock \in {"Organic Carbon", "OrganicCarbon"},
        oc \in {"Poor", "Medium", "Moderate", "Rich"}}
    \cup {NoCategories}

InitExplain ==
    /\ \E c \in ExplainCategories, district \in {"Pune", "Medium"},
          season \in {"Kharif", "Rabi"}, irrigation_type \in {"Rain-fed", "Irrigated"},
          language \in {"english", "Marathi", NoStr},
          agronomy_data \in {Recommendation(FALSE, <<>>), Recommendation(TRUE, <<"Soybean">>)} :
          expl = [pc |-> "call", agronomy_data |-> agronomy_data, categories |-> c,
                  district |-> district, season |-> season,
                  irrigation_type |-> irrigation_type, language |-> language,
                  raised |-> FALSE, summary |-> <<>>, disclaimer |-> NoStr]
    /\ IdleCategorize /\ IdleClassify /\ IdleExtract /\ IdleAdvisory /\ IdleRecommend /\ IdlePipeline

Explain ==
    /\ expl.pc = "call"
    /\ LET e == generate_farmer_explanation(expl.agronomy_data, expl.categories,
                                            expl.district, expl.season,
                                            expl.irrigation_type, expl.language)
       IN expl' = [expl EXCEPT !.pc = "returned", !.raised = e.raised,
                               !.summary = e.summary, !.disclaimer = e.disclaimer]
    /\ UNCHANGED <<categorizeVars, ext, adv, cls, rec, pipelineVars>>

NextExplain == Explain

SpecExplain == InitExplain /\ [][NextExplain]_vars

\* Positions i and j of a text lie in one sentence: no full stop from the
\* earlier of them up to, not including, the later.
SameSentence(text, i, j) ==
    LET lo == IF i <= j THEN i ELSE j
        hi == IF i <= j THEN j ELSE i
    IN \A m \in lo..(hi - 1) : text[m] # "."

\* C8: a summary generate_farmer_explanation returns for a profile whose
\* Nitrogen category is Low has a sentence naming nitrogen that holds "low",
\* and no sentence naming nitrogen holds "medium" or "high", whatever the
\* other categories, district, season and irrigation type are.
C8_NitrogenLowSummary ==
    (/\ expl.pc = "returned" /\ ~ expl.raised
     /\ CategoryOf(expl.categories, "Nitrogen") = "Low")
        => /\ \E i, j \in 1..Len(expl.summary) :
                 /\ Lower(expl.summary[i]) = "nitrogen"
                 /\ Lower(expl.summary[j]) = "low"
                 /\ SameSentence(expl.summary, i, j)
           /\ \A i, j \in 1..Len(expl.summary) :
                 (Lower(expl.summary[i]) = "nitrogen" /\ SameSentence(expl.summary, i, j))
                     => Lower(expl.summary[j]) \notin {"medium", "high"}

\* C8 witness: a summary was returned for Nitrogen Low next to a Phosphorus
\* category of High and an Organic Carbon entry.
C8_Witness ==
    /\ expl.pc = "returned" /\ ~ expl.raised
    /\ CategoryOf(expl.categories, "Nitrogen") = "Low"
    /\ CategoryOf(expl.categories, "Phosphorus") = "High"
    /\ expl.categories["Organic Carbon"] = "Poor"
    /\ Len(expl.summary) > 0

(***************************************************************************)
(* hard_parse_soil_values (soil_ai_module.py 423-528).                     *)
(* A report text is one line per parameter, lines separated by newlines.   *)
(* A line is the tokens the patterns look at: the label, what stands       *)
(* between the label and the number, the number (digits before the point,  *)
(* thousandths after it, whether a point and digits follow), the unit, and *)
(* a category word written after the label in place of a number.           *)
(***************************************************************************)
NoLine ==
    [present |-> FALSE, label |-> "", sep |-> "", has_number |-> FALSE,
     whole |-> 0, frac |-> 0, point |-> FALSE, unit |-> "", word |-> ""]

NumberLine(label, sep, whole, frac, point, unit) ==
    [present |-> TRUE, label |-> label, sep |-> sep, has_number |-> TRUE,
     whole |-> whole, frac |-> frac, point |-> point, unit |-> unit, word |-> ""]

WordLine(label, sep, word) ==
    [present |-> TRUE, label |-> label, sep |-> sep, has_number |-> FALSE,
     whole |-> 0, frac |-> 0, point |-> FALSE, unit |-> "", word |-> word]

\* float(match.group(1)), in thousandths
ParseFloat(line) == line.whole * 1000 + line.frac

\* str.capitalize() on a lowered category word
Capitalize(w) ==
    CASE w = "low" -> "Low" [] w = "medium" -> "Medium" [] w = "high" -> "High" [] OTHER -> w

\* Keys of the extractor's output as process_soil_report completes it.
ExtractKeys == {"pH", "Nitrogen", "Phosphorus", "Potassium", "OrganicCarbon"}

\* An entry hard_parse_soil_values did not write ("k not in extracted_params").
Unparsed == [value |-> None, source |-> NoStr, category_hint |-> NoStr, category |-> NoStr]

Parsed(value) ==
    [value |-> value, source |-> "report", category_hint |-> NoStr, category |-> NoStr]

\* r"pH\s*([0-9]+\.[0-9]+)": only white space between "pH" and the number,
\* and the number has a decimal point.
ParsePh(line) ==
    IF /\ line.present /\ Lower(line.label) = "ph" /\ line.sep \in {"", " "}
       /\ line.has_number /\ line.point
    THEN Parsed(ParseFloat(line)) ELSE Unparsed

\* Nitrogen_value, else Nitrogen_cat (a category word, kept as category_hint).
ParseNitrogen(line) ==
    IF line.present /\ line.has_number /\ line.unit \in {"kg/ha", "kg ha"}
    THEN Parsed(ParseFloat(line))
    ELSE IF line.present /\ Lower(line.word) \in {"low", "medium", "high"}
    THEN [Unparsed EXCEPT !.source = "report",
                          !.category_hint = Capitalize(Lower(line.word))]
    ELSE Unparsed

\* Phosphorus, Potassium: a number followed by kg/ha.
ParseNutrient(line) ==
    IF line.present /\ line.has_number /\ line.unit = "kg/ha"
    THEN Parsed(ParseFloat(line)) ELSE Unparsed

\* Organic Carbon: a category word wins over a value; a value is kept only
\* within 0..1.5 %.
ParseOrganicCarbon(line) ==
    IF line.present /\ Lower(line.word) \in {"low", "medium", "high"}
    THEN [Unparsed EXCEPT !.source = "report",
                          !.category = CASE Lower(line.word) = "low" -> "Poor"
                                         [] Lower(line.word) = "medium" -> "Moderate"
                                         [] OTHER -> "Rich"]
    ELSE IF /\ line.present /\ line.has_number /\ line.unit = "%"
            /\ 0 <= ParseFloat(line) /\ ParseFloat(line) <= 1500
    THEN Parsed(ParseFloat(line))
    ELSE Unparsed

hard_parse_soil_values(text) ==
    [k \in ExtractKeys |->
        CASE k = "pH"         -> ParsePh(text.pH)
          [] k = "Nitrogen"   -> ParseNitrogen(text.Nitrogen)
          [] k = "Phosphorus" -> ParseNutrient(text.Phosphorus)
          [] k = "Potassium"  -> ParseNutrient(text.Potassium)
          [] OTHER            -> ParseOrganicCarbon(text.OrganicCarbon)]

\* sub occurs in text as consecutive words.
ContainsSeq(text, sub) ==
    \E i \in 0..(Len(text) - Len(sub)) : \A j \in 1..Len(sub) : text[i + j] = sub[j]

(***************************************************************************)
(* SpecAdvisory: calls of generate_advisory.  An advisory text is a        *)
(* sequence of words, numerals and punctuation marks.                      *)
(***************************************************************************)
\* Numerals of the sampled advisory texts, and those with two digits in a row.
Numerals == {"7.2", "150"}
TwoDigitNumerals == {"150"}

\* Line 1775: advisory.lower(), word by word.
LowerText(text) == [i \in 1..Len(text) |-> Lower(text[i])]

\* A regular expression word, (?:is|=|:), digits, searched in the text.
ValuePattern(text, word) ==
    \E i \in 1..(Len(text) - 2) :
        text[i] = word /\ text[i + 1] \in {"is", "=", ":"} /\ text[i + 2] \in Numerals

\* Lines 1767-1779: the forbidden patterns, searched in advisory_lower.  The
\* first pattern spells pH with a capital H and is compiled without
\* re.IGNORECASE.
ForbiddenPattern(advisory_lower) ==
    \/ ValuePattern(advisory_lower, "pH")
    \/ \E i \in 1..(Len(advisory_lower) - 1) :
          advisory_lower[i] \in TwoDigitNumerals /\ advisory_lower[i + 1] \in {"kg/ha", "kg/acre"}
    \/ ValuePattern(advisory_lower, "nitrogen")
    \/ ValuePattern(advisory_lower, "phosphorus")
    \/ ValuePattern(advisory_lower, "potassium")

\* Words of the sampled texts that end in the letter n.
EndsInN == {"nitrogen", "soybean", "season", "onion"}
Punctuation == {".", ","}

\* "n " in advisory_lower: a word ending in n with a space after it.
HasNSpace(advisory_lower) ==
    \E i \in 1..(Len(advisory_lower) - 1) :
        advisory_lower[i] \in EndsInN /\ advisory_lower[i + 1] \notin Punctuation

\* Lines 1782-1798: the contradiction checks 1 to 3.
ContradictsCategories(advisory_lower, nitrogen_category, pH_category) ==
    \/ /\ nitrogen_category = "Low"
       /\ \E i \in 1..Len(advisory_lower) : advisory_lower[i] = "medium"
       /\ \/ \E i \in 1..Len(advisory_lower) : advisory_lower[i] = "nitrogen"
          \/ HasNSpace(advisory_lower)
    \/ /\ nitrogen_category = "Low"
       /\ \/ ContainsSeq(advisory_lower, <<"high", "nitrogen">>)
          \/ ContainsSeq(advisory_lower, <<"sufficient", "nitrogen">>)
          \/ ContainsSeq(advisory_lower, <<"adequate", "nitrogen">>)
    \/ /\ pH_category = "Neutral"
       /\ \/ ContainsSeq(advisory_lower, <<"soil", "is", "acidic">>)
          \/ ContainsSeq(advisory_lower, <<"soil", "is", "alkaline">>)

\* Lines 1806-1809
known_crops ==
    {"wheat", "gram", "onion", "tomato", "potato", "soybean", "cotton", "maize",
     "rice", "sugarcane", "tur", "bajra", "jowar", "groundnut", "mustard",
     "sunflower", "garlic", "fenugreek", "coriander", "watermelon", "muskmelon",
     "cucumber", "okra"}

\* Lines 1800-1815: check 4, made only for a non-empty crop list.
MentionsOtherCrop(advisory, crops) ==
    /\ crops # <<>>
    /\ \E i \in 1..Len(advisory) :
          /\ Lower(advisory[i]) \in known_crops
          /\ \A j \in 1..Len(crops) : Lower(advisory[i]) # Lower(crops[j])

\* generate_advisory after the AI answered advisory: the text, or None
\* (has_text FALSE).
ValidatedAdvisory(advisory, crops, nitrogen_category, pH_category) ==
    IF \/ ForbiddenPattern(LowerText(advisory))
       \/ ContradictsCategories(LowerText(advisory), nitrogen_category, pH_category)
       \/ MentionsOtherCrop(advisory, crops)
       \/ advisory = <<>>
    THEN [has_text |-> FALSE, text |-> <<>>]
    ELSE [has_text |-> TRUE, text |-> advisory]

\* Texts the AI advisory service answers with.
AdvisoryTexts ==
    { <<>>,
      <<"Grow", "soybean", "this", "season", ".">>,
      <<"Grow", "wheat", "this", "season", ".">>,
      <<"Soil", "pH", "is", "7.2", ".">>,
      <<"Apply", "150", "kg/ha", "urea", ".">>,
      <<"Nitrogen", "is", "150", ".">>,
      <<"Nitrogen", "is", "medium", ".">>,
      <<"Nitrogen", "is", "high", ".">>,
      <<"Soil", "is", "acidic", ".">>,
      <<"Use", "compost", ".">> }

AdvisoryCategories ==
    {[NoCategories EXCEPT !["pH"] = ph, !["Nitrogen"] = n] :
        ph \in {"Neutral", "Acidic"}, n \in {"Low", "Medium"}}
    \cup {NoCategories}

InitAdvisory ==
    /\ \E c \in AdvisoryCategories,
          crops \in {<<>>, <<"Soybean">>, <<"Wheat">>} :
          adv = [pc |-> "call", categories |-> c, crops |-> crops,
                 invocations |-> 0, ai_failed |-> FALSE, advisory |-> <<>>,
                 has_text |-> FALSE, text |-> <<>>]
    /\ IdleCategorize /\ IdleClassify /\ IdleExtract /\ IdleRecommend /\ IdleExplain
    /\ IdlePipeline

\* Lines 1670-1674: no profile, no advisory, and no AI call.
AdvisoryStart ==
    /\ adv.pc = "call"
    /\ adv' = IF adv.categories = NoCategories
              THEN [adv EXCEPT !.pc = "returned"]
              ELSE [adv EXCEPT !.pc = "invoke"]
    /\ UNCHANGED <<categorizeVars, cls, ext, rec, expl, pipelineVars>>

\* Lines 1754-1815: the one chain.invoke, the validations, the return; an
\* exception returns None.
AdvisoryInvoke ==
    /\ adv.pc = "invoke"
    /\ \/ adv' = [adv EXCEPT !.pc = "returned", !.invocations = adv.invocations + 1,
                             !.ai_failed = TRUE]
       \/ \E t \in AdvisoryTexts :
             LET v == ValidatedAdvisory(t, adv.crops, CategoryOf(adv.categories, "Nitrogen"),
                                        CategoryOf(adv.categories, "pH"))
             IN adv' = [adv EXCEPT !.pc = "returned", !.invocations = adv.invocations + 1,
                                   !.advisory = t, !.has_text = v.has_text, !.text = v.text]
    /\ UNCHANGED <<categorizeVars, cls, ext, rec, expl, pipelineVars>>

NextAdvisory == AdvisoryStart \/ AdvisoryInvoke

\* A whole call of generate_advisory on a profile that is not empty, the AI
\* call raising (ai_failed) or answering advisory.
generate_advisory(categories, crops, ai_failed, advisory) ==
    LET v == IF ai_failed THEN [has_text |-> FALSE, text |-> <<>>]
             ELSE ValidatedAdvisory(advisory, crops, CategoryOf(categories, "Nitrogen"),
                                    CategoryOf(categories, "pH"))
    IN [pc |-> "returned", categories |-> categories, crops |-> crops,
        invocations |-> 1, ai_failed |-> ai_failed,
        advisory |-> IF ai_failed THEN <<>> ELSE advisory,
        has_text |-> v.has_text, text |-> v.text]

SpecAdvisory == InitAdvisory /\ [][NextAdvisory]_vars

(***************************************************************************)
(* process_soil_report (soil_ai_module.py 2017-2231).                      *)
(***************************************************************************)
\* Lines 2046-2051: every key the parser left out is added as missing.
FillMissing(parsed) ==
    [k \in ExtractKeys |->
        IF parsed[k] = Unparsed THEN [Unparsed EXCEPT !.source = "missing"] ELSE parsed[k]]

\* Lines 2063-2093: the profile entry of one parameter.
ProfileEntry(param, param_data) ==
    IF param_data.source = "report" /\ param_data.value # None
    THEN [category   |-> categorize_from_thresholds(param, param_data.value).category,
          confidence |-> categorize_from_thresholds(param, param_data.value).confidence,
          value |-> param_data.value, source |-> "report"]
    ELSE [category |-> "Unknown", confidence |-> 0, value |-> None, source |-> "missing"]

BuildProfile(params) == [k \in ExtractKeys |-> ProfileEntry(k, params[k])]

\* The categories of a profile of process_soil_report, as the Recommender and
\* the Explainer look them up.
CategoriesOf(profile) ==
    [k \in AllProfileKeys |-> IF k \in ExtractKeys THEN profile[k].category ELSE NoStr]

\* Lines 2095-2112: the basic summary.
BasicSentence(subject, category) ==
    IF category # "Unknown" THEN subject \o <<Lower(category), ".">> ELSE <<>>

BasicSummary(profile) ==
    LET parts == BasicSentence(<<"Soil", "pH", "is">>, profile["pH"].category)
                 \o BasicSentence(<<"Nitrogen", "levels", "are">>, profile["Nitrogen"].category)
                 \o BasicSentence(<<"Phosphorus", "levels", "are">>, profile["Phosphorus"].category)
                 \o BasicSentence(<<"Potassium", "levels", "are">>, profile["Potassium"].category)
    IN IF parts # <<>> THEN parts
       ELSE <<"Unable", "to", "extract", "soil", "parameters", ".">>

\* An explanation object of a response.
Explanation(text, disclaimer) ==
    [present |-> TRUE, summary |-> text, disclaimer |-> disclaimer,
     has_advisory |-> FALSE, advisory |-> <<>>]

\* A response without the fields of a successful run.
FailureResponse(explanation) ==
    [success |-> FALSE, has_body |-> FALSE, explanation |-> explanation,
     extracted_parameters |-> Idle, soil_profile |-> Idle, recommendations |-> Idle]

\* Lines 2219-2231: the response of the except branch.
ExceptResponse ==
    FailureResponse(Explanation(
        <<"An", "error", "occurred", "while", "processing", "the", "soil", "report", ".">>,
        "Please verify extracted values manually."))

\* Lines 2030-2040: the response for a missing district, season or irrigation
\* type; get_disclaimer(None) raises into the except branch.
MissingInputResponse(language) ==
    IF language = NoStr THEN ExceptResponse
    ELSE FailureResponse(Explanation(<<"Required", "parameters", "are", "missing", ".">>,
                                     get_disclaimer(language)))

\* Lines 2116-2141: the Recommender's result, or the fallback recommendation
\* (empty primary list) after an error result or an exception.
RecommendationsOf(r) ==
    IF r.error \/ r.raised THEN Recommendation(TRUE, <<>>)
    ELSE Recommendation(r.has_primary, r.primary)

\* Lines 2144-2160: the basic summary and the disclaimer, updated with the
\* Explainer's result unless the Explainer raised.
ResponseExplanation(basic_summary, recommendations, categories, district, season, irrigation_type, language) ==
    LET exp_result == generate_farmer_explanation(recommendations, categories, district,
                                                  season, irrigation_type, language)
    IN IF exp_result.raised THEN Explanation(basic_summary, get_disclaimer(language))
       ELSE Explanation(exp_result.summary, exp_result.disclaimer)

\* str has no method get: advisory.get("error") raises AttributeError on the
\* text generate_advisory returned.
StrHasGet == FALSE

\* Lines 2162-2175: `if advisory and not advisory.get("error")` attaches the
\* advisory; None is skipped, and the AttributeError on a text is caught by
\* the except of line 2174, which only logs.
AttachAdvisory(explanation, advisory_result) ==
    IF advisory_result.has_text /\ StrHasGet
    THEN [explanation EXCEPT !.has_advisory = TRUE, !.advisory = advisory_result.text]
    ELSE explanation

\* Texts the AI advisory service answers with inside process_soil_report.
PipelineAdvisoryTexts == {<<>>, <<"Use", "compost", ".">>}

\* Lines 2209-2218
SuccessResponse(params, profile, explanation, recommendations) ==
    [success |-> TRUE, has_body |-> TRUE, explanation |-> explanation,
     extracted_parameters |-> params, soil_profile |-> profile,
     recommendations |-> recommendations]

(***************************************************************************)
(* soil_ai_api.py: the stdin/stdout wrapper.                               *)
(***************************************************************************)
\* categorize_soil_value for the parameters the extractor names: pH gets
\* Low/Medium/High, every other parameter "Unknown".
categorize_soil_value(param_name, value) ==
    IF param_name = "pH"
    THEN IF value < 6500 THEN "Low" ELSE IF value <= 7500 THEN "Medium" ELSE "High"
    ELSE "Unknown"

\* convert_numeric_to_category raises TypeError comparing a None pH value.
ConvertRaises(response) ==
    response.has_body /\ response.extracted_parameters["pH"].value = None

\* convert_numeric_to_category: every entry gets "category" and loses "value".
convert_numeric_to_category(response) ==
    IF response.has_body
    THEN [response EXCEPT !.extracted_parameters =
            [k \in ExtractKeys |->
                [category |-> categorize_soil_value(k, response.extracted_parameters[k].value),
                 source |-> response.extracted_parameters[k].source,
                 category_hint |-> response.extracted_parameters[k].category_hint]]]
    ELSE response

\* Lines 70-80: error_result
error_result ==
    FailureResponse(Explanation(
        <<"An", "error", "occurred", "while", "processing", "the", "soil", "report", ".">>,
        "DISCLAIMER_EN"))

\* Lines 61-66: a response without explanation gets the default one.
EnsureExplanation(response) ==
    IF response.explanation.present THEN response
    ELSE [response EXCEPT !.explanation =
            Explanation(<<"Unable", "to", "generate", "explanation", ".">>, "DISCLAIMER_EN")]

(***************************************************************************)
(* Requests.                                                               *)
(***************************************************************************)
PhLines ==
    { NoLine,
      NumberLine("pH", " ", 6, 900, TRUE, ""),        \* "pH 6.9"
      NumberLine("pH", ": ", 6, 900, TRUE, ""),       \* "pH: 6.9"
      NumberLine("pH", " ", 15, 200, TRUE, "") }      \* "pH 15.2"

NitrogenLines ==
    { NoLine,
      NumberLine("Available Nitrogen", " (N): ", 120, 0, FALSE, "kg/ha"),
      NumberLine("Available Nitrogen", " (N): ", 199, 500, TRUE, "kg/ha"),
      NumberLine("Available Nitrogen", " (N): ", 250, 0, FALSE, "kg/ha"),
      WordLine("Available Nitrogen", " (N): ", "Low") }

PhosphorusLines ==
    { NoLine, NumberLine("Available Phosphorus", ": ", 15, 0, FALSE, "kg/ha") }

PotassiumLines ==
    { NoLine, NumberLine("Available Potassium", ": ", 109, 500, TRUE, "kg/ha") }

OrganicCarbonLines ==
    { NoLine,
      NumberLine("Organic Carbon", ": ", 0, 300, TRUE, "%"),
      NumberLine("Organic Carbon", ": ", 2, 0, TRUE, "%"),
      WordLine("Organic Carbon", ": ", "Low") }

ReportTexts ==
    [pH : PhLines, Nitrogen : NitrogenLines, Phosphorus : PhosphorusLines,
     Potassium : PotassiumLines, OrganicCarbon : OrganicCarbonLines]

EmptyText ==
    [pH |-> NoLine, Nitrogen |-> NoLine, Phosphorus |-> NoLine,
     Potassium |-> NoLine, OrganicCarbon |-> NoLine]

\* What stdin holds: text that is no JSON, a JSON object whose report_text is
\* null, or a JSON object with a report text; district "" also stands for an
\* absent district, language NoStr for a null language.  A district whose
\* name holds the word "Medium" trips the Explainer's safety check.
Requests ==
    {[stdin_ok |-> FALSE, text_null |-> FALSE, report_text |-> EmptyText,
      district |-> "", season |-> "Kharif", irrigation_type |-> "Rain-fed",
      language |-> "marathi"]}
    \cup {[stdin_ok |-> TRUE, text_null |-> TRUE, report_text |-> EmptyText,
           district |-> "Pune", season |-> "Kharif", irrigation_type |-> "Rain-fed",
           language |-> l] : l \in {"english", NoStr}}
    \cup {[stdin_ok |-> TRUE, text_null |-> FALSE, report_text |-> t,
           district |-> d, season |-> se, irrigation_type |-> "Rain-fed",
           language |-> l] :
            t \in ReportTexts, d \in {"Pune", ""}, se \in {"Kharif", "Rabi"},
            l \in {"english", "Marathi", "Hindi", NoStr}}
    \cup {[stdin_ok |-> TRUE, text_null |-> FALSE,
           report_text |-> [EmptyText EXCEPT !.pH = ph, !.Nitrogen = n],
           district |-> "Medium", season |-> "Kharif", irrigation_type |-> "Rain-fed",
           language |-> "english"] : ph \in PhLines, n \in NitrogenLines}

Init ==
    /\ req \in Requests
    /\ pc = "stdin"
    /\ extracted_params = Idle /\ soil_profile = Idle /\ summary = <<>>
    /\ result = Idle /\ stdout = Idle
    /\ IdleCategorize /\ IdleClassify /\ IdleExtract /\ IdleAdvisory /\ IdleRecommend /\ IdleExplain

\* soil_ai_api.py 46-47 and 70-80: json.loads of stdin; on failure the
\* error_result is printed and the process exits with status 1.
ApiReadStdin ==
    /\ pc = "stdin"
    /\ IF req.stdin_ok
       THEN pc' = "process" /\ UNCHANGED stdout
       ELSE pc' = "done" /\ stdout' = [response |-> error_result, exit |-> 1]
    /\ UNCHANGED <<categorizeVars, ext, adv, cls, rec, expl, req, extracted_params,
                   soil_profile, summary, result>>

\* process_soil_report 2029-2126: input check, extraction, profile, basic
\* summary, and the call of the Recommender.
ProcessStart ==
    /\ pc = "process"
    /\ IF req.district = "" \/ req.season = "" \/ req.irrigation_type = ""
       THEN /\ result' = MissingInputResponse(req.language)
            /\ pc' = "convert"
            /\ UNCHANGED <<extracted_params, soil_profile, summary, rec>>
       ELSE IF req.text_null
       THEN /\ result' = ExceptResponse         \* re.search(pattern, None): TypeError
            /\ pc' = "convert"
            /\ UNCHANGED <<extracted_params, soil_profile, summary, rec>>
       ELSE LET params  == FillMissing(hard_parse_soil_values(req.report_text))
                profile == BuildProfile(params)
            IN /\ extracted_params' = params
               /\ soil_profile' = profile
               /\ summary' = BasicSummary(profile)
               /\ rec' = RecommendCall(CategoriesOf(profile), req.district, req.season,
                                       req.irrigation_type, req.language)
               /\ pc' = "recommend"
               /\ UNCHANGED result
    /\ UNCHANGED <<categorizeVars, ext, adv, cls, expl, req, stdout>>

\* process_soil_report 2127-2231: fallback, explanation, response.  The
\* advisory is never attached (generate_advisory returns a str or None, and
\* advisory.get raises on a str); the detailed analysis does not touch the
\* other fields.
ProcessFinish ==
    /\ pc = "recommend"
    /\ rec.pc = "returned"
    /\ IF req.language = NoStr
       THEN /\ result' = ExceptResponse           \* get_disclaimer(None), line 2146
            /\ UNCHANGED adv
       ELSE \E ai_failed \in BOOLEAN, t \in PipelineAdvisoryTexts :
               /\ ai_failed => t = <<>>
               /\ adv' = generate_advisory(CategoriesOf(soil_profile),
                                            RecommendationsOf(rec).primary, ai_failed, t)
               /\ result' =
                     SuccessResponse(extracted_params, soil_profile,
                         AttachAdvisory(
                             ResponseExplanation(summary, RecommendationsOf(rec),
                                                 CategoriesOf(soil_profile), req.district,
                                                 req.season, req.irrigation_type,
                                                 req.language),
                             adv'),
                         RecommendationsOf(rec))
    /\ rec' = Idle
    /\ pc' = "convert"
    /\ UNCHANGED <<categorizeVars, ext, cls, expl, req, extracted_params, soil_profile,
                   summary, stdout>>

\* soil_ai_api.py 58-80: conversion, default explanation, print.
ApiPrint ==
    /\ pc = "convert"
    /\ stdout' = IF ConvertRaises(result)
                 THEN [response |-> error_result, exit |-> 1]
                 ELSE [response |-> EnsureExplanation(convert_numeric_to_category(result)),
                       exit |-> 0]
    /\ pc' = "done"
    /\ UNCHANGED <<categorizeVars, ext, adv, cls, rec, expl, req, extracted_params, soil_profile,
                   summary, result>>

Next ==
    \/ ApiReadStdin
    \/ ProcessStart
    \/ RecommendStart
    \/ RecommendAttempt
    \/ ProcessFinish
    \/ ApiPrint

Spec == Init /\ [][Next]_vars

(***************************************************************************)
(* Properties of the responses.                                            *)
(***************************************************************************)
\* process_soil_report has returned a response.
Responded == pc \in {"convert", "done"} /\ result # Idle

\* The wrapper has printed a response.
Printed == pc = "done"

\* C2 as stated: in the soil profile of a response of process_soil_report, a
\* parameter whose extracted reading has a value and source "report" never
\* has category "Unknown", also for values between two table rows or beyond
\* the table.
C2_ReportValueCategorised ==
    (Responded /\ result.has_body)
        => \A k \in ExtractKeys :
              (/\ result.extracted_parameters[k].value # None
               /\ result.extracted_parameters[k].source = "report")
                  => result.soil_profile[k].category # "Unknown"

\* C3 as stated: when the profile's Nitrogen category is Low or its Organic
\* Carbon category is Poor, the primary crops of the response of
\* process_soil_report never contain Onion.
C3_NoOnionOnPoorSoil ==
    (/\ Responded /\ result.has_body
     /\ \/ result.soil_profile["Nitrogen"].category = "Low"
        \/ result.soil_profile["OrganicCarbon"].category = "Poor")
        => \A i \in 1..Len(result.recommendations.primary) :
              result.recommendations.primary[i] # "Onion"

HasExplanation(response) ==
    /\ response.explanation.present
    /\ response.explanation.summary # <<>>
    /\ response.explanation.disclaimer # NoStr

\* C5: every response of process_soil_report and every response the wrapper
\* prints, success or failure, holds an explanation with a summary and a
\* disclaimer.
C5_ExplanationAlwaysPresent ==
    /\ Responded => HasExplanation(result)
    /\ Printed => HasExplanation(stdout.response)

\* C5 witness: a failure response of process_soil_report (null report text)
\* went through the wrapper.
C5_Witness ==
    /\ Printed /\ req.text_null /\ result # Idle
    /\ ~ result.success /\ ~ stdout.response.success /\ stdout.exit = 0

\* Recommendations another run of the Recommender can hand to the Explainer
\* for the same profile and context: a primary list of one crop, a result
\* without primary list, or the fallback with its empty list.
AlternativeRecommendations ==
    {Recommendation(TRUE, <<c>>) : c \in AICrops}
    \cup {Recommendation(FALSE, <<>>), Recommendation(TRUE, <<>>)}

\* C9: the summary of a successful response is the one process_soil_report
\* produces from the same profile and context for every other Recommender
\* outcome (other crops, no crops, a failed recommendation).
C9_SummaryIgnoresRecommendation ==
    (Responded /\ result.has_body)
        => \A alt \in AlternativeRecommendations :
              ResponseExplanation(summary, alt, CategoriesOf(soil_profile), req.district,
                                  req.season, req.irrigation_type, req.language).summary
                 = result.explanation.summary

\* C9 witness: a response with two recommended crops and the Explainer's
\* summary.
C9_Witness ==
    /\ Responded /\ result.has_body
    /\ Len(result.recommendations.primary) = 2
    /\ ContainsSeq(result.explanation.summary, <<"This", "recommendation", "is", "for">>)

\* C10 as stated: a report text holding "pH: 6.9" and "Available Nitrogen
\* (N): 120 kg/ha", district Pune, season Kharif, gives a response with pH
\* Neutral and Nitrogen Low in the soil profile, "Soil pH is neutral" and
\* "Nitrogen levels are low" in the summary, and no Onion among the primary
\* crops.
C10_EndToEnd ==
    (/\ Responded /\ ~ req.text_null
     /\ req.report_text.pH = NumberLine("pH", ": ", 6, 900, TRUE, "")
     /\ req.report_text.Nitrogen = NumberLine("Available Nitrogen", " (N): ", 120, 0, FALSE, "kg/ha")
     /\ req.district = "Pune" /\ req.season = "Kharif" /\ req.language # NoStr)
        => /\ result.has_body
           /\ result.soil_profile["pH"].category = "Neutral"
           /\ result.soil_profile["Nitrogen"].category = "Low"
           /\ ContainsSeq(result.explanation.summary, <<"Soil", "pH", "is", "neutral">>)
           /\ ContainsSeq(result.explanation.summary, <<"Nitrogen", "levels", "are", "low">>)
           /\ \A i \in 1..Len(result.recommendations.primary) :
                 Lower(translate_crop_name_to_english(result.recommendations.primary[i]))
                     # "onion"

\* The request has an empty report text and its district, season,
\* irrigation type and language are present.
EmptyReportRequest ==
    /\ req.stdin_ok /\ ~ req.text_null /\ req.report_text = EmptyText
    /\ req.district # "" /\ req.season # "" /\ req.irrigation_type # ""
    /\ req.language # NoStr

\* A response for a report without data: success, every extracted parameter
\* missing, every profile category Unknown, an explanation with a summary.
NoDataResponse(response) ==
    /\ response.success /\ response.has_body
    /\ \A k \in ExtractKeys :
          /\ response.extracted_parameters[k].source = "missing"
          /\ response.soil_profile[k].category = "Unknown"
    /\ HasExplanation(response)

\* C11 as stated: for an empty report text, the value process_soil_report
\* returns and the response the wrapper prints both have success = true,
\* every extracted parameter with source "missing", every profile category
\* Unknown, and an explanation with a summary.
C11_EmptyReportResponse ==
    EmptyReportRequest
        => /\ Responded => NoDataResponse(result)
           /\ Printed => NoDataResponse(stdout.response)

\* C12 as stated: every reading the Extractor hands on has a value if and
\* only if its source is "report"; a parameter without a numeric value (also
\* one with only a Low/Medium/High word) has source "missing".
C12_ValueIffReport ==
    (pc \in {"recommend", "convert", "done"} /\ extracted_params # Idle)
        => \A k \in ExtractKeys :
              (extracted_params[k].value # None) <=> (extracted_params[k].source = "report")

(***************************************************************************)
(* AI-backed extraction: _value_in_text, ai_fallback_extract and           *)
(* extract_soil_parameters (soil_ai_module.py 609-681, 756-878).           *)
(* A normalized text is given by the numerals that occur in it between     *)
(* word boundaries, the category words that occur in it, whether it holds  *)
(* "soil health card", and what the rule-based pass found in it.           *)
(***************************************************************************)
\* Parameters the calls of SpecExtract ask for.
AIExtractKeys == {"pH", "Nitrogen"}

\* No entry for a parameter in an extraction result.
NoReading == [value |-> None, category |-> NoStr, source |-> NoStr]

\* "ph 6.9 available nitrogen(n)120 kg ha status low", with or without the
\* words "soil health card", and a text without soil data.
NormalizedTexts ==
    {[numerals |-> {"6.9", "6", "9", "120"}, words |-> {"low"}, card |-> c,
      found |-> [k \in AIExtractKeys |-> IF k = "pH" THEN 6900 ELSE 120000]] : c \in BOOLEAN}
    \cup {[numerals |-> {}, words |-> {}, card |-> FALSE,
           found |-> [k \in AIExtractKeys |-> None]]}

\* A number of an AI answer: thousandths, and whether JSON gave an int.
AINumber(n, is_int) == [n |-> n, is_int |-> is_int]

\* f"{value}" (and json.dumps) of a number: an int without point, a float
\* with point and at least one decimal.
FormatNumber(v) ==
    CASE v = AINumber(120000, TRUE)  -> "120"
      [] v = AINumber(120000, FALSE) -> "120.0"
      [] v = AINumber(210000, TRUE)  -> "210"
      [] v = AINumber(9000, TRUE)    -> "9"
      [] v = AINumber(6900, FALSE)   -> "6.9"
      [] v = AINumber(7800, FALSE)   -> "7.8"
      [] OTHER                       -> NoStr

\* An entry of an AI answer: a number, a category word, both, or neither.
AIEntry(has_value, v, category) ==
    [has_value |-> has_value, number |-> v, category |-> category]

NoAIEntry == AIEntry(FALSE, AINumber(0, TRUE), NoStr)

AIExtractEntries ==
    { NoAIEntry,
      AIEntry(TRUE, AINumber(120000, TRUE), NoStr),
      AIEntry(TRUE, AINumber(120000, FALSE), NoStr),
      AIEntry(TRUE, AINumber(210000, TRUE), NoStr),
      AIEntry(TRUE, AINumber(6900, FALSE), NoStr),
      AIEntry(TRUE, AINumber(7800, FALSE), NoStr),
      AIEntry(TRUE, AINumber(210000, TRUE), "low"),
      AIEntry(FALSE, AINumber(0, TRUE), "Low"),
      AIEntry(FALSE, AINumber(0, TRUE), "High") }

AIExtractAnswers == [AIExtractKeys -> AIExtractEntries]

\* _value_in_text for a number: \b<f"{value}">\b is found in the text.
NumberInText(v, normalized_text) == FormatNumber(v) \in normalized_text.numerals

\* _value_in_text for a string: value.lower() is a substring of the text.
WordInText(w, normalized_text) == Lower(w) \in normalized_text.words

\* Lines 662-681: the validated entry of one key of the AI answer.
ValidatedEntry(key, entry, normalized_text, missing_params) ==
    IF key \notin missing_params THEN NoReading
    ELSE IF entry.has_value /\ NumberInText(entry.number, normalized_text)
    THEN [value |-> entry.number.n, category |-> NoStr, source |-> "report"]
    ELSE IF entry.category # NoStr /\ WordInText(entry.category, normalized_text)
    THEN [value |-> None, category |-> Lower(entry.category), source |-> "report"]
    ELSE NoReading

\* ai_fallback_extract: {} for no missing parameter or a failed AI call, else
\* the validated entries.
ai_fallback_extract(ai_failed, ai_result, normalized_text, missing_params) ==
    [k \in AIExtractKeys |->
        IF missing_params = {} \/ ai_failed THEN NoReading
        ELSE ValidatedEntry(k, ai_result[k], normalized_text, missing_params)]

\* validate_no_numeric_values_in_response on json.dumps(result): the pattern
\* value["']?\s*:\s*\d+\.\d+ finds every "value" that is a float.
NumericValueInResponse(ai_result) ==
    \E k \in AIExtractKeys : ai_result[k].has_value /\ ~ ai_result[k].number.is_int

\* Lines 859-878: the AI answer is returned as it is, unless the call or the
\* numeric-value check raised, which gives empty extracted_parameters.
extract_soil_parameters_ai(ai_failed, ai_result) ==
    [k \in AIExtractKeys |->
        IF ai_failed \/ NumericValueInResponse(ai_result) \/ ai_result[k] = NoAIEntry
        THEN NoReading
        ELSE [value |-> IF ai_result[k].has_value THEN ai_result[k].number.n ELSE None,
              category |-> ai_result[k].category, source |-> "report"]]

\* Lines 766-777: what hard_extract_soil_health_card found.
HardExtracted(normalized_text) ==
    [k \in AIExtractKeys |->
        IF normalized_text.found[k] # None
        THEN [value |-> normalized_text.found[k], category |-> NoStr, source |-> "report"]
        ELSE NoReading]

InitExtract ==
    /\ \E fn \in {"ai_fallback_extract", "extract_soil_parameters"},
          t \in NormalizedTexts, missing \in SUBSET AIExtractKeys :
          /\ fn = "extract_soil_parameters" => missing = AIExtractKeys
          /\ ext = [pc |-> "call", fn |-> fn, normalized_text |-> t,
                    missing_params |-> missing, ai_consulted |-> FALSE,
                    ai_failed |-> FALSE,
                    ai_result |-> [k \in AIExtractKeys |-> NoAIEntry],
                    result |-> [k \in AIExtractKeys |-> NoReading]]
    /\ IdleCategorize /\ IdleClassify /\ IdleAdvisory /\ IdleRecommend /\ IdleExplain /\ IdlePipeline

\* ai_fallback_extract(report_text, normalized_text, missing_params)
CallAiFallbackExtract ==
    /\ ext.pc = "call" /\ ext.fn = "ai_fallback_extract"
    /\ \E failed \in BOOLEAN, a \in AIExtractAnswers :
          /\ failed => a = [k \in AIExtractKeys |-> NoAIEntry]
          /\ ext' = [ext EXCEPT !.pc = "returned",
                                !.ai_consulted = (ext.missing_params # {}),
                                !.ai_failed = failed, !.ai_result = a,
                                !.result = ai_fallback_extract(failed, a, ext.normalized_text,
                                                               ext.missing_params)]
    /\ UNCHANGED <<categorizeVars, cls, adv, rec, expl, pipelineVars>>

\* extract_soil_parameters(report_text)
CallExtractSoilParameters ==
    /\ ext.pc = "call" /\ ext.fn = "extract_soil_parameters"
    /\ IF /\ ext.normalized_text.card
          /\ HardExtracted(ext.normalized_text) # [k \in AIExtractKeys |-> NoReading]
       THEN ext' = [ext EXCEPT !.pc = "returned",
                               !.result = HardExtracted(ext.normalized_text)]
       ELSE \E failed \in BOOLEAN, a \in AIExtractAnswers :
               /\ failed => a = [k \in AIExtractKeys |-> NoAIEntry]
               /\ ext' = [ext EXCEPT !.pc = "returned", !.ai_consulted = TRUE,
                                     !.ai_failed = failed, !.ai_result = a,
                                     !.result = extract_soil_parameters_ai(failed, a)]
    /\ UNCHANGED <<categorizeVars, cls, adv, rec, expl, pipelineVars>>

NextExtract == CallAiFallbackExtract \/ CallExtractSoilParameters

SpecExtract == InitExtract /\ [][NextExtract]_vars

\* C13 as stated: on both paths that consult the AI, an entry of the result
\* is there only for a parameter the rule-based pass did not find and only
\* if the AI's number or category word literally occurs in the normalized
\* text.
C13_AIValuesOccurInText ==
    (ext.pc = "returned" /\ ext.ai_consulted)
        => \A k \in AIExtractKeys :
              ext.result[k] # NoReading
                  => /\ k \in ext.missing_params
                     /\ \/ /\ ext.result[k].value # None
                           /\ FormatNumber(ext.ai_result[k].number)
                                 \in ext.normalized_text.numerals
                        \/ /\ ext.result[k].value = None
                           /\ Lower(ext.ai_result[k].category) \in ext.normalized_text.words

\* The fixed vocabulary of a parameter's category; Unknown is the category
\* of a parameter without data.
Vocabulary(key) ==
    CASE key = "pH" -> {"Acidic", "Neutral", "Alkaline", "Unknown"}
      [] key \in {"Nitrogen", "Phosphorus", "Potassium"} -> {"Low", "Medium", "High", "Unknown"}
      [] OTHER -> {"Poor", "Moderate", "Rich", "Unknown"}

\* C14 as stated: every category of a profile classify_soil_profile returns
\* belongs to the vocabulary of its parameter, be it computed from the
\* threshold table or taken from the AI answer.
C14_CategoryVocabulary ==
    (cls.pc = "returned" /\ ~ cls.raised /\ ~ cls.error)
        => \A k \in ProfileKeys :
              cls.soil_profile[k] # NoEntry
                  => cls.soil_profile[k].category \in Vocabulary(k)

\* C15 as stated: when the Recommender has returned its error object or has
\* raised, the response process_soil_report builds has success false.
C15_StageFailureNotSuccess ==
    [][ (pc = "recommend" /\ rec.pc = "returned" /\ (rec.error \/ rec.raised)
            /\ pc' = "convert")
        => result'.success = FALSE ]_vars

\* The FAIL-FAST check of line 1395 fires on the AI answer a of call r.
FailFastBreach(r, a) ==
    /\ a.kind = "ok" /\ a.has_primary
    /\ high_input_in_result(translate_crop_names_to_english(a.primary),
                            CategoryOf(r.categories, "Nitrogen"),
                            organic_carbon_category(r.categories)) # {}

\* C16 as stated: an iteration of the Recommender in which the FAIL-FAST check
\* fires ends the call with an exception raised to the caller; the breach is
\* neither retried nor turned into the error object.
C16_FailFastPropagates ==
    [][ \A a \in AIRecommendAnswers :
          (rec.pc = "attempt" /\ FailFastBreach(rec, a) /\ rec' = RecommendIteration(rec, a))
              => (rec'.pc = "returned" /\ rec'.raised) ]_vars

\* The disclaimer the request's language calls for: the Marathi text for
\* marathi / mr, the English text for every other code.
ExpectedDisclaimer ==
    IF req.language # NoStr /\ Lower(req.language) \in {"marathi", "mr"}
    THEN "DISCLAIMER_MR" ELSE "DISCLAIMER_EN"

\* C17 as stated: the disclaimer of every response, returned by
\* process_soil_report or printed by the wrapper, on success and on failure,
\* is the disclaimer of the request's language.
C17_DisclaimerLanguage ==
    /\ Responded => result.explanation.disclaimer = ExpectedDisclaimer
    /\ Printed => stdout.response.explanation.disclaimer = ExpectedDisclaimer

\* The crops the filter is stated to treat as high-input, in lower case.
StatedHighInput == {"onion", "sugarcane", "tomato", "potato"}

\* C18 as stated: when the Recommender reads Nitrogen Low or Organic Carbon
\* Poor, the primary list of a recommendation it returns holds none of Onion,
\* Sugarcane, Tomato and Potato, in whatever letter case the season check
\* accepts.
C18_NoHighInputOnPoorSoil ==
    (/\ rec.pc = "returned" /\ ~ rec.error /\ ~ rec.raised /\ rec.has_primary
     /\ \/ CategoryOf(rec.categories, "Nitrogen") = "Low"
        \/ organic_carbon_category(rec.categories) = "Poor")
        => \A i \in 1..Len(rec.primary) :
              Lower(translate_crop_name_to_english(rec.primary[i])) \notin StatedHighInput

\* Lines 1372-1375: the crops should_filter_crop lets through.
filtered_crops_en(crops_for_validation, nitrogen_category, oc_category) ==
    SelectSeq(crops_for_validation,
              LAMBDA c : ~ should_filter_crop(c, nitrogen_category, oc_category))

\* The AI answer a of call r is a list of in-season crops of which the filter
\* removes some and keeps some.
MixedList(r, a) ==
    LET crops == translate_crop_names_to_english(a.primary)
        kept  == filtered_crops_en(crops, CategoryOf(r.categories, "Nitrogen"),
                                   organic_carbon_category(r.categories))
    IN /\ a.kind = "ok" /\ a.has_primary
       /\ validate_crops_for_season(crops, r.season)
       /\ kept # <<>> /\ kept # crops

\* C19 as stated: on a list mixing in-season crops the filter keeps with
\* high-input crops it removes, the Recommender returns the kept crops, with
\* neither an exception nor an error.
C19_MixedListFiltered ==
    [][ \A a \in AIRecommendAnswers :
          (rec.pc = "attempt" /\ MixedList(rec, a) /\ rec' = RecommendIteration(rec, a))
              => /\ rec'.pc = "returned" /\ ~ rec'.error /\ ~ rec'.raised
                 /\ rec'.has_primary
                 /\ translate_crop_names_to_english(rec'.primary)
                       = filtered_crops_en(translate_crop_names_to_english(a.primary),
                                           CategoryOf(rec.categories, "Nitrogen"),
                                           organic_carbon_category(rec.categories)) ]_vars

\* The Recommender's steps are the statements of a synchronous loop: a step
\* that can be taken is taken.
SpecRecommendFair == SpecRecommend /\ WF_vars(NextRecommend)

\* The season validation of line 1399 fails on the AI answer a of call r.
SeasonFails(r, a) ==
    /\ a.kind = "ok" /\ a.has_primary
    /\ ~ FailFastBreach(r, a)
    /\ ~ validate_crops_for_season(translate_crop_names_to_english(a.primary), r.season)

\* C20: every call of generate_agronomy_recommendations returns, the AI is
\* invoked at most max_retries times in it (attempt counts the invocations
\* before the current one), a season-validation failure before the last
\* attempt leads to another attempt, and one on the last attempt returns the
\* error object, which carries no crop list; no error object carries one.
C20_BoundedRetries ==
    /\ [](rec.attempt \in 0..(max_retries - 1))
    /\ []((rec.pc = "returned" /\ rec.error) => (~ rec.has_primary /\ rec.primary = <<>>))
    /\ [][ \A a \in AIRecommendAnswers :
             (rec.pc = "attempt" /\ SeasonFails(rec, a) /\ rec' = RecommendIteration(rec, a))
                 => IF rec.attempt < max_retries - 1
                    THEN rec'.pc = "attempt" /\ rec'.attempt = rec.attempt + 1
                    ELSE /\ rec'.pc = "returned" /\ rec'.error
                         /\ ~ rec'.has_primary /\ rec'.primary = <<>> ]_vars
    /\ <>(rec.pc = "returned")

\* C20 witness: a call has returned the season error object after the AI was
\* invoked max_retries times.
C20_Witness ==
    /\ rec.pc = "returned" /\ rec.error
    /\ rec.error_message = "Crop recommendations do not match season"
    /\ rec.attempt = max_retries - 1
    /\ rec.season = "Kharif"

\* C21 as stated: when the AI classification call has failed (exception,
\* answer rejected by the numeric-value check, answer without soil_profile),
\* the profile classify_soil_profile returns still gives every measured
\* parameter its threshold category with confidence 0.95.
C21_MeasuredLockedOnAIFailure ==
    (cls.pc = "returned" /\ cls.ai \in AIClassifyFailures)
        => \A k \in ClassifyParams :
              Measured(cls.extracted[k])
                  => /\ cls.soil_profile[k] # NoEntry
                     /\ cls.soil_profile[k].category
                          = categorize_from_thresholds(k, cls.extracted[k].value).category
                     /\ cls.soil_profile[k].confidence = 95

\* Lines 1338-1345: the content chain.invoke sends to the AI recommendation
\* service; soil_profile is json.dumps of the profile argument, every field
\* of every entry included.
recommend_request(profile, district, season, irrigation_type, language) ==
    [soil_profile |-> profile, district |-> district, season |-> season,
     irrigation_type |-> irrigation_type, soil_type |-> "Unknown",
     language |-> IF is_marathi(language) THEN "Marathi" ELSE "English"]

\* process_soil_report is inside the Recommender's retry loop: the AI
\* recommendation service is about to be invoked on the request's profile.
AIRecommendInvoked == pc = "recommend" /\ rec.pc = "attempt"

\* C22 as stated: the content sent to the AI recommendation service holds no
\* numeric soil value, only categories and the context.
C22_RequestCarriesNoValue ==
    AIRecommendInvoked
        => \A k \in ExtractKeys :
              recommend_request(soil_profile, req.district, req.season,
                                req.irrigation_type, req.language).soil_profile[k].value = None

\* The category is a known one: present in the profile and not Unknown.
KnownCategory(category) == category \notin {"Unknown", NoStr}

\* word occurs in text, letter case ignored.
Mentions(text, word) == \E i \in 1..Len(text) : Lower(text[i]) = word

\* C23 as stated: a summary generate_farmer_explanation returns has a
\* sentence naming each parameter whose category is known, for every value of
\* that category, and ends with the context sentence.
C23_SentencePerKnownParameter ==
    (expl.pc = "returned" /\ ~ expl.raised)
        => /\ KnownCategory(CategoryOf(expl.categories, "pH")) => Mentions(expl.summary, "ph")
           /\ \A k \in {"Nitrogen", "Phosphorus", "Potassium"} :
                 KnownCategory(CategoryOf(expl.categories, k))
                     => Mentions(expl.summary, Lower(k))
           /\ KnownCategory(organic_carbon_category(expl.categories))
                 => Mentions(expl.summary, "carbon")
           /\ ContainsSeq(expl.summary,
                          ContextStatement(expl.district, expl.season, expl.irrigation_type))

\* The text states a number for a soil parameter, or an amount per area.
StatesSoilValue(text) ==
    \E i \in 1..Len(text) :
        /\ text[i] \in Numerals
        /\ \/ \E j \in 1..Len(text) :
                 /\ Lower(text[j]) \in {"ph", "nitrogen", "phosphorus", "potassium"}
                 /\ SameSentence(text, i, j)
           \/ (i < Len(text) /\ text[i + 1] \in {"kg/ha", "kg/acre"})

\* The text names a known crop that is not in the list.
NamesCropOutside(text, crops) ==
    \E i \in 1..Len(text) :
        /\ Lower(text[i]) \in known_crops
        /\ \A j \in 1..Len(crops) : Lower(text[i]) # Lower(crops[j])

\* The text gives nitrogen a category word other than the profile's Low.
ContradictsNitrogenLow(text, categories) ==
    /\ CategoryOf(categories, "Nitrogen") = "Low"
    /\ \E i, j \in 1..Len(text) :
          /\ Lower(text[i]) = "nitrogen"
          /\ Lower(text[j]) \in {"medium", "high"}
          /\ SameSentence(text, i, j)

\* C24 as stated: a text generate_advisory returns states no numeric soil
\* value, names no crop outside the recommended list (the empty list
\* included) and does not contradict the profile's categories; the AI
\* advisory service is invoked at most once in a call.
C24_AdvisoryValidated ==
    /\ adv # Idle => adv.invocations <= 1
    /\ (adv # Idle /\ adv.pc = "returned" /\ adv.has_text)
          => /\ ~ StatesSoilValue(adv.text)
             /\ ~ NamesCropOutside(adv.text, adv.crops)
             /\ ~ ContradictsNitrogenLow(adv.text, adv.categories)

\* The threshold lookup of a measured reading fails: no row of the table
\* holds the value.
LookupFails(param, reading) ==
    Measured(reading) /\ categorize_from_thresholds(param, reading.value).category = "Unknown"

\* C25 as stated: classify_soil_profile does not raise on a measured reading
\* whose threshold lookup fails, and the profile it returns after a usable AI
\* answer gives that parameter category Unknown with confidence 0.
C25_LookupFailureIsUnknown ==
    cls # Idle /\ cls.pc = "returned"
        => \A k \in ClassifyParams :
              LookupFails(k, cls.extracted[k])
                  => /\ ~ cls.raised
                     /\ cls.ai = "ok"
                           => /\ cls.soil_profile[k].category = "Unknown"
                              /\ cls.soil_profile[k].confidence = 0

\* C26 as stated: a reading process_soil_report records as measured (source
\* "report" with a value) lies in its parameter's plausibility range, pH 0 to
\* 14 and Nitrogen 10 to 500 kg/ha (values in thousandths).
C26_MeasuredWithinPlausibleRange ==
    (pc \in {"recommend", "convert", "done"} /\ extracted_params # Idle)
        => /\ (extracted_params["pH"].source = "report" /\ extracted_params["pH"].value # None)
                 => extracted_params["pH"].value \in 0..14000
           /\ (/\ extracted_params["Nitrogen"].source = "report"
               /\ extracted_params["Nitrogen"].value # None)
                 => extracted_params["Nitrogen"].value \in 10000..500000

\* C27 as stated: the response process_soil_report returns, and the response
\* the wrapper prints after it, carry extracted_parameters and soil_profile
\* exactly as the extraction and the categorization produced them.
C27_UpstreamStateUnchanged ==
    /\ (Responded /\ result.has_body)
          => /\ result.extracted_parameters = extracted_params
             /\ result.soil_profile = soil_profile
    /\ (Printed /\ stdout.response.has_body)
          => /\ stdout.response.extracted_parameters = extracted_params
             /\ stdout.response.soil_profile = soil_profile

\* C28 as stated: when generate_advisory returned a text inside
\* process_soil_report, the response carries that text as
\* explanation.advisory.
C28_AdvisoryAttached ==
    (Responded /\ result.has_body /\ adv # Idle /\ adv.has_text)
        => /\ result.explanation.has_advisory
           /\ result.explanation.advisory = adv.text

\* C29 as stated: in a response the wrapper prints, the category attached to
\* an entry of extracted_parameters is the category of the same parameter in
\* soil_profile.
C29_PrintedCategoriesAgree ==
    (Printed /\ stdout.response.has_body)
        => \A k \in ExtractKeys :
              stdout.response.extracted_parameters[k].category
                  = stdout.response.soil_profile[k].category

\* C30 as stated: when the profile's Nitrogen category is Low, a
\* recommendation generate_agronomy_recommendations returns without an error
\* has a fertilizer plan whose Nitrogen recommended_range is "Low" or "Low to
\* Medium", whatever the AI answered as its fertilizer plan.
C30_NitrogenRangeAligned ==
    (/\ rec.pc = "returned" /\ ~ rec.error /\ ~ rec.raised
     /\ CategoryOf(rec.categories, "Nitrogen") = "Low")
        => /\ rec.fertilizer_plan.kind = "object"
           /\ rec.fertilizer_plan.n_range \in {"Low", "Low to Medium"}

====
